---- MODULE Spec2Model ----
(***************************************************************************)
(* RepoMind code analyzer: LanguageDetector, FunctionExtractor and          *)
(* CodeParser (src/src/backend/code_analyzer).                              *)
(*                                                                          *)
(* Texts (paths, contents, labels) are strings; offsets are Python's        *)
(* 0-based offsets, so the character at offset p of s is SubSeq(s,p+1,p+1). *)
(***************************************************************************)
EXTENDS Integers, Sequences, FiniteSets, TLC

(***************************************************************************)
(* Python string primitives.                                                *)
(***************************************************************************)

\* s[p] for 0 <= p < len(s)
At(s, p) == SubSeq(s, p + 1, p + 1)

\* a slice bound as CPython normalises it: a negative bound counts from the
\* end, and every bound is clamped to 0..len(s)
SliceBound(s, b) ==
    IF b < 0 THEN (IF Len(s) + b < 0 THEN 0 ELSE Len(s) + b)
    ELSE IF b > Len(s) THEN Len(s) ELSE b

\* s[a:b]
Slice(s, a, b) ==
    IF SliceBound(s, a) >= SliceBound(s, b) THEN ""
    ELSE SubSeq(s, SliceBound(s, a) + 1, SliceBound(s, b))

Min(S) == CHOOSE m \in S : \A n \in S : m <= n
Max(S) == CHOOSE m \in S : \A n \in S : m >= n

\* s.count(c) for a one-character c
Count(s, c) == Cardinality({p \in 0..(Len(s) - 1) : At(s, p) = c})

\* s.find(c, from) for a one-character c
MinOr(hits, none) == IF hits = {} THEN none ELSE Min(hits)
Find(s, c, from) == MinOr({p \in from..(Len(s) - 1) : At(s, p) = c}, -1)

(***************************************************************************)
(* The texts of the model are ASCII but for two characters: TwoByteChar    *)
(* stands for U+00E9, which UTF-8 encodes in two bytes, and LoneSurrogate  *)
(* for U+D800, which str.encode('utf-8') refuses with UnicodeEncodeError.  *)
(***************************************************************************)
TwoByteChar == "@"
LoneSurrogate == "^"

(***************************************************************************)
(* Character classes of the re module, over ASCII.                          *)
(***************************************************************************)
Lower == {"a","b","c","d","e","f","g","h","i","j","k","l","m",
          "n","o","p","q","r","s","t","u","v","w","x","y","z"}
Upper == {"A","B","C","D","E","F","G","H","I","J","K","L","M",
          "N","O","P","Q","R","S","T","U","V","W","X","Y","Z"}
Digit == {"0","1","2","3","4","5","6","7","8","9"}
WordChars  == Lower \cup Upper \cup Digit \cup {"_"}     \* \w
SpaceChars == {" ", "\t", "\n", "\r", "\f"}              \* \s

(***************************************************************************)
(* Regular expressions as trees, matched the way re matches them: by        *)
(* backtracking, alternatives left to right, quantifiers greedy unless      *)
(* marked lazy.  Run takes the sequence of nodes still to match.            *)
(***************************************************************************)
Str(t)      == [k |-> "str", t |-> t]          \* literal text
In(S)       == [k |-> "in", s |-> S]           \* [...]
NotIn(S)    == [k |-> "notin", s |-> S]        \* [^...]
Cat(xs)     == [k |-> "cat", xs |-> xs]
Alt(xs)     == [k |-> "alt", xs |-> xs]        \* a|b|c
Star(r)     == [k |-> "star", r |-> r]         \* r*
Plus(r)     == Cat(<<r, Star(r)>>)             \* r+
Opt(r)      == [k |-> "opt", r |-> r]          \* r?
LazyStar(r) == [k |-> "lazy", r |-> r]         \* r*?
Open(n)     == [k |-> "open", n |-> n]
Close(n)    == [k |-> "close", n |-> n]
Grp(n, r)   == Cat(<<Open(n), r, Close(n)>>)   \* capturing group n
Bol         == [k |-> "bol"]                   \* ^ under re.MULTILINE
WordB       == [k |-> "wordb"]                 \* \b
Dot         == NotIn({"\n"})                   \* .
W           == In(WordChars)                   \* \w
Sp          == In(SpaceChars)                  \* \s

NoMatch == [ok |-> FALSE]
NoGroup == <<-1, -1>>
NoGroups == <<NoGroup, NoGroup>>

IsWordAt(s, p) == p >= 0 /\ p < Len(s) /\ At(s, p) \in WordChars

\* whether the one-character pattern r matches the character at offset p
CharOk(r, s, p) ==
    IF r.k = "in" THEN At(s, p) \in r.s ELSE At(s, p) \notin r.s

\* the offset where the run of characters matching r that starts at i ends
SpanEndOf(stops, s) == IF stops = {} THEN Len(s) ELSE Min(stops)
SpanEnd(r, s, i) == SpanEndOf({p \in i..(Len(s) - 1) : ~CharOk(r, s, p)}, s)

\* the first attempt if it matched, else the second
OrElse(a, b) == IF a.ok THEN a ELSE b

\* of the attempts [at |-> offset, m |-> outcome] that matched, the outcome
\* at the greatest offset, at the least offset
AtLast(good) ==
    IF good = {} THEN NoMatch
    ELSE (CHOOSE t \in good : \A u \in good : t.at >= u.at).m
AtFirst(good) ==
    IF good = {} THEN NoMatch
    ELSE (CHOOSE t \in good : \A u \in good : t.at <= u.at).m

\* Run(s, rs, i, g): the outcome of matching the patterns rs, one after the
\* other, from offset i on, with the groups g captured so far: the first
\* success in backtracking order.  A repeated one-character pattern is tried
\* at every length of its run, longest first (shortest first when lazy).
\* (None of the patterns below repeats a pattern that can match "".)
RECURSIVE Run(_, _, _, _)
Run(s, rs, i, g) ==
    IF rs = <<>> THEN [ok |-> TRUE, end |-> i, g |-> g]
    ELSE LET r == Head(rs)
             rest == Tail(rs)
         IN CASE r.k = "str" ->
                   IF i + Len(r.t) <= Len(s) /\ SubSeq(s, i + 1, i + Len(r.t)) = r.t
                   THEN Run(s, rest, i + Len(r.t), g) ELSE NoMatch
              [] r.k \in {"in", "notin"} ->
                   IF i < Len(s) /\ CharOk(r, s, i)
                   THEN Run(s, rest, i + 1, g) ELSE NoMatch
              [] r.k = "cat" -> Run(s, r.xs \o rest, i, g)
              [] r.k = "alt" ->
                   IF r.xs = <<>> THEN NoMatch
                   ELSE OrElse(Run(s, <<Head(r.xs)>> \o rest, i, g),
                               Run(s, <<Alt(Tail(r.xs))>> \o rest, i, g))
              [] r.k = "star" /\ r.r.k \in {"in", "notin"} ->
                   AtLast({t \in {[at |-> j, m |-> Run(s, rest, j, g)] :
                                     j \in i..SpanEnd(r.r, s, i)} : t.m.ok})
              [] r.k = "lazy" /\ r.r.k \in {"in", "notin"} ->
                   AtFirst({t \in {[at |-> j, m |-> Run(s, rest, j, g)] :
                                      j \in i..SpanEnd(r.r, s, i)} : t.m.ok})
              [] r.k = "star" /\ r.r.k = "alt" /\ Head(r.r.xs).k \in {"in", "notin"} ->
                   \* (c|y|..)* with c one character: after k characters of the
                   \* run matching c, either another alternative and the star
                   \* again, or no more iterations; the longest k first
                   AtLast({t \in {[at |-> j,
                                   m |-> OrElse(Run(s, <<Alt(Tail(r.r.xs)), r>> \o rest, j, g),
                                                Run(s, rest, j, g))] :
                                     j \in i..SpanEnd(Head(r.r.xs), s, i)} : t.m.ok})
              [] r.k = "star" ->
                   OrElse(Run(s, <<r.r, r>> \o rest, i, g), Run(s, rest, i, g))
              [] r.k = "lazy" ->
                   OrElse(Run(s, rest, i, g), Run(s, <<r.r, r>> \o rest, i, g))
              [] r.k = "opt" ->
                   OrElse(Run(s, <<r.r>> \o rest, i, g), Run(s, rest, i, g))
              [] r.k = "open" -> Run(s, rest, i, [g EXCEPT ![r.n] = <<i, -1>>])
              [] r.k = "close" -> Run(s, rest, i, [g EXCEPT ![r.n] = <<g[r.n][1], i>>])
              [] r.k = "bol" ->
                   IF i = 0 \/ At(s, i - 1) = "\n" THEN Run(s, rest, i, g) ELSE NoMatch
              [] r.k = "wordb" ->
                   IF IsWordAt(s, i - 1) # IsWordAt(s, i)
                   THEN Run(s, rest, i, g) ELSE NoMatch

\* pattern.match(s, p): a match starting exactly at offset p
AsMatch(a, p) ==
    IF a.ok THEN [ok |-> TRUE, start |-> p, end |-> a.end, g |-> a.g] ELSE NoMatch
MatchAt(re, s, p) == AsMatch(Run(s, <<re>>, p, NoGroups), p)

\* re.search(re, s) from offset p on: the leftmost match
Leftmost(hits) ==
    IF hits = {} THEN NoMatch
    ELSE CHOOSE m \in hits : \A n \in hits : m.start <= n.start
SearchFrom(re, s, p) == Leftmost({MatchAt(re, s, q) : q \in p..Len(s)} \ {NoMatch})

Search(re, s) == SearchFrom(re, s, 0)

\* list(re.finditer(re, s)): the non-overlapping matches, left to right
\* (none of the patterns used here matches the empty string)
RECURSIVE FindIterFrom(_, _, _)
MatchAndRest(re, s, m) ==
    IF ~m.ok THEN <<>>
    ELSE <<m>> \o FindIterFrom(re, s, IF m.end > m.start THEN m.end ELSE m.end + 1)
FindIterFrom(re, s, p) == MatchAndRest(re, s, SearchFrom(re, s, p))

FindIter(re, s) == FindIterFrom(re, s, 0)

\* match.group(n); None (an unmatched group) is rendered as ""
Group(s, m, n) ==
    IF m.g[n][2] < 0 THEN "" ELSE Slice(s, m.g[n][1], m.g[n][2])

(***************************************************************************)
(* FunctionExtractor._find_closing_brace                                   *)
(***************************************************************************)
RECURSIVE BraceScan(_, _, _)
BraceScan(content, pos, stack) ==
    IF pos >= Len(content) THEN -1
    ELSE IF At(content, pos) = "{" THEN BraceScan(content, pos + 1, stack + 1)
    ELSE IF At(content, pos) = "}"
         THEN (IF stack - 1 = 0 THEN pos + 1
               ELSE BraceScan(content, pos + 1, stack - 1))
    ELSE BraceScan(content, pos + 1, stack)

\* variant: the scan started with an empty stack
FindClosingBraceFromZero(content, start_pos) == BraceScan(content, start_pos, 0)

FindClosingBrace(content, start_pos) == BraceScan(content, start_pos, 1)

\* variant: line numbers counted from 0
LineOfZeroBased(content, pos) == Count(Slice(content, 0, pos), "\n")

\* content[:pos].count('\n') + 1
LineOf(content, pos) == Count(Slice(content, 0, pos), "\n") + 1

RECURSIVE Flatten(_)
Flatten(ss) == IF ss = <<>> THEN <<>> ELSE Head(ss) \o Flatten(Tail(ss))

\* the dict every handler appends
FunctionRecord(name, signature, description, start_line, end_line, code) ==
    [name |-> name, signature |-> signature, description |-> description,
     start_line |-> start_line, end_line |-> end_line, code |-> code]

(***************************************************************************)
(* FunctionExtractor._extract_js_ts_functions                              *)
(***************************************************************************)
JsIdent == Cat(<<In(Lower \cup Upper \cup {"_", "$"}),
                 Star(In(WordChars \cup {"$"}))>>)
ParenParams == Cat(<<Str("("), Grp(2, Star(NotIn({")"}))), Str(")")>>)

\* function\s+(IDENT)\s*\(([^)]*)\)\s*{
JsFunctionDecl ==
    Cat(<<Str("function"), Plus(Sp), Grp(1, JsIdent), Star(Sp), ParenParams,
          Star(Sp), Str("{")>>)
\* (?:const|let|var)\s+(IDENT)\s*=\s*(?:async\s*)?\([^)]*\)\s*=>\s*{
JsArrow ==
    Cat(<<Alt(<<Str("const"), Str("let"), Str("var")>>), Plus(Sp), Grp(1, JsIdent),
          Star(Sp), Str("="), Star(Sp), Opt(Cat(<<Str("async"), Star(Sp)>>)),
          Str("("), Star(NotIn({")"})), Str(")"), Star(Sp), Str("=>"), Star(Sp),
          Str("{")>>)
\* (?:async\s+)?(IDENT)\s*\(([^)]*)\)\s*{
JsMethod ==
    Cat(<<Opt(Cat(<<Str("async"), Plus(Sp)>>)), Grp(1, JsIdent), Star(Sp),
          ParenParams, Star(Sp), Str("{")>>)
\* class\s+(IDENT)\s*{
JsClass ==
    Cat(<<Str("class"), Plus(Sp), Grp(1, JsIdent), Star(Sp), Str("{")>>)

\* the patterns list; groups is len(match.groups()), is_class is
\* 'class' in pattern
JsPatterns ==
    << [re |-> JsFunctionDecl, groups |-> 2, is_class |-> FALSE],
       [re |-> JsArrow,        groups |-> 1, is_class |-> FALSE],
       [re |-> JsMethod,       groups |-> 2, is_class |-> FALSE],
       [re |-> JsClass,        groups |-> 1, is_class |-> TRUE] >>

\* the record of one method-shorthand match mm in the body of a class match
JsClassMethod(content, match, class_body, mm) ==
    LET class_name == Group(content, match, 1)
        method_name == Group(class_body, mm, 1)
        method_params == Group(class_body, mm, 2)
        method_start_pos == match.end + mm.start
        method_end == FindClosingBrace(content, method_start_pos + mm.end - mm.start)
    IN FunctionRecord(class_name \o "." \o method_name,
                      method_name \o "(" \o method_params \o ")",
                      "",
                      LineOf(content, method_start_pos),
                      LineOf(content, method_end),
                      Slice(content, method_start_pos, method_end))

\* `for method_match in method_matches:`
JsMethodMatches(content, match, class_body, method_matches) ==
    [i \in 1..Len(method_matches) |->
        JsClassMethod(content, match, class_body, method_matches[i])]

JsMethodsIn(content, match, class_body) ==
    JsMethodMatches(content, match, class_body, FindIter(JsMethod, class_body))

\* the records of one class match: one per method-shorthand match in the
\* class body
JsClassMethods(content, match) ==
    JsMethodsIn(content, match,
                Slice(content, match.end, FindClosingBrace(content, match.end)))

\* the record of a match of one of the other patterns
JsFunction(content, pat, match) ==
    LET function_name == Group(content, match, 1)
        params == IF pat.groups > 1 THEN Group(content, match, 2) ELSE ""
        end_pos == FindClosingBrace(content, match.end)
    IN FunctionRecord(function_name,
                      function_name \o "(" \o params \o ")",
                      "",
                      LineOf(content, match.start),
                      LineOf(content, end_pos),
                      Slice(content, match.start, end_pos))

\* the records of the matches of one pattern
JsMatches(content, pat, matches) ==
    Flatten([i \in 1..Len(matches) |->
                IF pat.is_class THEN JsClassMethods(content, matches[i])
                ELSE <<JsFunction(content, pat, matches[i])>>])

JsPattern(content, pat) == JsMatches(content, pat, FindIter(pat.re, content))

ExtractJsTsFunctions(content) ==
    Flatten([p \in 1..Len(JsPatterns) |-> JsPattern(content, JsPatterns[p])])

(***************************************************************************)
(* FunctionExtractor._extract_c_cpp_functions                              *)
(***************************************************************************)
NoBrace == NotIn({"{", "}"})
\* {(?:[^{}]|{(?:[^{}]|{[^{}]*})*})*}
CBody ==
    Cat(<<Str("{"),
          Star(Alt(<<NoBrace,
                     Cat(<<Str("{"),
                           Star(Alt(<<NoBrace,
                                      Cat(<<Str("{"), Star(NoBrace), Str("}")>>)>>)),
                           Str("}")>>)>>)),
          Str("}")>>)
CFunction ==
    Cat(<<Plus(Cat(<<Plus(In(WordChars \cup {":"})), Plus(Sp)>>)),
          Grp(1, Plus(W)), Star(Sp), ParenParams, Star(Sp),
          Opt(Str("const")), Star(Sp), Opt(Str("override")), Star(Sp),
          Opt(Str("final")), Star(Sp),
          Opt(Cat(<<Str("="), Star(Sp),
                    Alt(<<Str("default"), Str("delete"), Str("0")>>)>>)),
          Star(Sp), Opt(Str("noexcept")), Star(Sp), CBody>>)

CCppFunction(content, match) ==
    LET function_name == Group(content, match, 1)
        params == Group(content, match, 2)
    IN FunctionRecord(function_name,
                      function_name \o "(" \o params \o ")",
                      "",
                      LineOf(content, match.start),
                      LineOf(content, match.end),
                      Slice(content, match.start, match.end))

\* `for match in matches:`
CCppMatches(content, matches) ==
    [i \in 1..Len(matches) |-> CCppFunction(content, matches[i])]

ExtractCCppFunctions(content) == CCppMatches(content, FindIter(CFunction, content))

(***************************************************************************)
(* FunctionExtractor._extract_java_functions                               *)
(***************************************************************************)
\* class\s+(\w+)
ClassDecl == Cat(<<Str("class"), Plus(Sp), Grp(1, Plus(W))>>)

\* variant: the first class declaration gives the name
FirstClass(content, cs) == IF cs = <<>> THEN "" ELSE Group(content, cs[1], 1)

\* current_class after the loop over the class matches: the last one's
\* name, "" standing for None
LastClass(content, cs) == IF cs = <<>> THEN "" ELSE Group(content, cs[Len(cs)], 1)
CurrentClass(content) == LastClass(content, FindIter(ClassDecl, content))

\* f"{current_class}.{method_name}" if current_class else method_name
FullName(current_class, method_name) ==
    IF current_class # "" THEN current_class \o "." \o method_name
    ELSE method_name

JavaMethod ==
    Cat(<<Alt(<<Str("public"), Str("private"), Str("protected"), Str("static"), Sp>>),
          Plus(Str(" ")),
          Plus(Cat(<<Plus(In(WordChars \cup {"<", ">", "[", "]"})), Plus(Sp)>>)),
          Grp(1, Plus(W)), Star(Str(" ")),
          Str("("), Star(NotIn({")"})), Str(")"), Star(Str(" ")),
          Opt(Cat(<<Str("throws "), Plus(NotIn({"{"}))>>)),
          Star(Str(" ")), Str("{")>>)
\* \((.*?)\)
JavaParams == Cat(<<Str("("), Grp(1, LazyStar(Dot)), Str(")")>>)

\* params_match.group(1) if params_match else ""
JavaParamsOf(head, params_match) ==
    IF params_match.ok THEN Group(head, params_match, 1) ELSE ""

JavaFunction(content, current_class, match) ==
    LET method_name == Group(content, match, 1)
        start_pos == match.start
        end_pos == FindClosingBrace(content, match.end)
        head == Slice(content, start_pos, match.end)
        params == JavaParamsOf(head, Search(JavaParams, head))
    IN FunctionRecord(FullName(current_class, method_name),
                      method_name \o "(" \o params \o ")",
                      "",
                      LineOf(content, start_pos),
                      LineOf(content, end_pos),
                      Slice(content, start_pos, end_pos))

\* `for match in matches:`
JavaMatches(content, current_class, matches) ==
    [i \in 1..Len(matches) |-> JavaFunction(content, current_class, matches[i])]

ExtractJavaFunctions(content) ==
    JavaMatches(content, CurrentClass(content), FindIter(JavaMethod, content))

(***************************************************************************)
(* FunctionExtractor._extract_ruby_functions                               *)
(***************************************************************************)
\* def\s+(\w+)(?:\(([^)]*)\))?
RubyMethod == Cat(<<Str("def"), Plus(Sp), Grp(1, Plus(W)), Opt(ParenParams)>>)
\* \bend\b
RubyEnd == Cat(<<WordB, Str("end"), WordB>>)

\* match.end() + end_match.end() if end_match else len(content)
RubyEndPos(content, match, end_match) ==
    IF end_match.ok THEN match.end + end_match.end ELSE Len(content)

RubyFunction(content, current_class, match) ==
    LET method_name == Group(content, match, 1)
        params == Group(content, match, 2)
        start_pos == match.start
        end_pos == RubyEndPos(content, match,
                              Search(RubyEnd, Slice(content, match.end, Len(content))))
    IN FunctionRecord(FullName(current_class, method_name),
                      method_name \o "(" \o params \o ")",
                      "",
                      LineOf(content, start_pos),
                      LineOf(content, end_pos),
                      Slice(content, start_pos, end_pos))

\* `for match in matches:`
RubyMatches(content, current_class, matches) ==
    [i \in 1..Len(matches) |-> RubyFunction(content, current_class, matches[i])]

ExtractRubyFunctions(content) ==
    RubyMatches(content, CurrentClass(content), FindIter(RubyMethod, content))

(***************************************************************************)
(* FunctionExtractor._extract_go_functions                                 *)
(***************************************************************************)
\* func\s+(\w+)\s*\(([^)]*)\)\s*(?:\([^)]*\))?\s*{
GoFunc ==
    Cat(<<Str("func"), Plus(Sp), Grp(1, Plus(W)), Star(Sp), ParenParams, Star(Sp),
          Opt(Cat(<<Str("("), Star(NotIn({")"})), Str(")")>>)), Star(Sp), Str("{")>>)

GoFunction(content, match) ==
    LET func_name == Group(content, match, 1)
        params == Group(content, match, 2)
        start_pos == match.start
        end_pos == FindClosingBrace(content, match.end)
    IN FunctionRecord(func_name,
                      func_name \o "(" \o params \o ")",
                      "",
                      LineOf(content, start_pos),
                      LineOf(content, end_pos),
                      Slice(content, start_pos, end_pos))

\* `for match in matches:`
GoMatches(content, matches) ==
    [i \in 1..Len(matches) |-> GoFunction(content, matches[i])]

ExtractGoFunctions(content) == GoMatches(content, FindIter(GoFunc, content))

(***************************************************************************)
(* FunctionExtractor._extract_rust_functions                               *)
(***************************************************************************)
\* (?:pub\s+)?fn\s+(\w+)\s*(?:<[^>]*>)?\s*\(([^)]*)\)(?:\s*->\s*[^{]*)?
RustFn ==
    Cat(<<Opt(Cat(<<Str("pub"), Plus(Sp)>>)), Str("fn"), Plus(Sp), Grp(1, Plus(W)),
          Star(Sp), Opt(Cat(<<Str("<"), Star(NotIn({">"})), Str(">")>>)), Star(Sp),
          ParenParams,
          Opt(Cat(<<Star(Sp), Str("->"), Star(Sp), Star(NotIn({"{"}))>>))>>)

\* one match's records: none when a `continue` is taken
RustFunction(content, match) ==
    LET func_name == Group(content, match, 1)
        params == Group(content, match, 2)
        start_pos == match.start
        open_brace_pos == Find(content, "{", match.end)
        end_pos == FindClosingBrace(content, open_brace_pos + 1)
    IN IF open_brace_pos = -1 THEN <<>>
       ELSE IF end_pos = -1 THEN <<>>
       ELSE <<FunctionRecord(func_name,
                             func_name \o "(" \o params \o ")",
                             "",
                             LineOf(content, start_pos),
                             LineOf(content, end_pos),
                             Slice(content, start_pos, end_pos))>>

\* `for match in matches:`
RustMatches(content, matches) ==
    Flatten([i \in 1..Len(matches) |-> RustFunction(content, matches[i])])

ExtractRustFunctions(content) == RustMatches(content, FindIter(RustFn, content))

(***************************************************************************)
(* FunctionExtractor._extract_generic_functions                            *)
(***************************************************************************)
\* (?:function|func|def|fn)\s+(\w+)\s*\(([^)]*)\)
GenericDecl ==
    Cat(<<Alt(<<Str("function"), Str("func"), Str("def"), Str("fn")>>), Plus(Sp),
          Grp(1, Plus(W)), Star(Sp), ParenParams>>)
\* (?:public|private|protected|static)?\s+(?:\w+\s+)*(\w+)\s*\(([^)]*)\)\s*{
GenericMethod ==
    Cat(<<Opt(Alt(<<Str("public"), Str("private"), Str("protected"), Str("static")>>)),
          Plus(Sp), Star(Cat(<<Plus(W), Plus(Sp)>>)), Grp(1, Plus(W)), Star(Sp),
          ParenParams, Star(Sp), Str("{")>>)
\* (?:const|let|var)\s+(\w+)\s*=\s*(?:async\s*)?\([^)]*\)\s*=>
GenericArrow ==
    Cat(<<Alt(<<Str("const"), Str("let"), Str("var")>>), Plus(Sp), Grp(1, Plus(W)),
          Star(Sp), Str("="), Star(Sp), Opt(Cat(<<Str("async"), Star(Sp)>>)),
          Str("("), Star(NotIn({")"})), Str(")"), Star(Sp), Str("=>")>>)

GenericPatterns ==
    << [re |-> GenericDecl,   groups |-> 2],
       [re |-> GenericMethod, groups |-> 2],
       [re |-> GenericArrow,  groups |-> 1] >>

GenericFunction(content, pat, match) ==
    LET func_name == Group(content, match, 1)
        params == IF pat.groups > 1 THEN Group(content, match, 2) ELSE ""
        start_pos == match.start
        at_brace == At(content, match.end - 1) = "{"
        open_brace == Find(content, "{", match.end)
        end_pos == IF at_brace THEN FindClosingBrace(content, match.end)
                   ELSE FindClosingBrace(content, open_brace + 1)
    IN IF ~at_brace /\ open_brace = -1 THEN <<>>
       ELSE IF end_pos = -1 THEN <<>>
       ELSE <<FunctionRecord(func_name,
                             func_name \o "(" \o params \o ")",
                             "",
                             LineOf(content, start_pos),
                             LineOf(content, end_pos),
                             Slice(content, start_pos, end_pos))>>

\* the records of the matches of one pattern
GenericMatches(content, pat, matches) ==
    Flatten([i \in 1..Len(matches) |-> GenericFunction(content, pat, matches[i])])

GenericPattern(content, pat) == GenericMatches(content, pat, FindIter(pat.re, content))

ExtractGenericFunctions(content) ==
    Flatten([p \in 1..Len(GenericPatterns) |->
                GenericPattern(content, GenericPatterns[p])])

(***************************************************************************)
(* FunctionExtractor._extract_python_functions                             *)
(*                                                                         *)
(* ast.parse is modelled on the Python the scanned texts are made of:      *)
(* lines indented with spaces, each blank, a # comment, or one of          *)
(*     def NAME(PARAMS):     class NAME:     pass     """TEXT"""     NAME  *)
(* and then blanks and a # comment at will, with PARAMS plain names and an *)
(* optional **NAME, and the last NAME made of TwoByteChar.  Any other line *)
(* is a SyntaxError, and so is an indentation that breaks the block rules. *)
(* A text with a LoneSurrogate makes ast.parse raise a ValueError, which   *)
(* is no SyntaxError.                                                      *)
(***************************************************************************)

\* content.split('\n')
NewlineOffsets(content) == {p \in 0..(Len(content) - 1) : At(content, p) = "\n"}
SplitAt(content, nl) ==
    LET StartOf(k) == IF k = 1 THEN 0
                      ELSE 1 + CHOOSE p \in nl :
                                 Cardinality({q \in nl : q < p}) = k - 2
        EndOf(k) == IF k = Cardinality(nl) + 1 THEN Len(content)
                    ELSE CHOOSE p \in nl : Cardinality({q \in nl : q < p}) = k - 1
    IN [k \in 1..(Cardinality(nl) + 1) |-> Slice(content, StartOf(k), EndOf(k))]
Split(content) == SplitAt(content, NewlineOffsets(content))

\* content.splitlines(), for texts whose only line break is '\n': a final
\* empty piece is no line
DropLastEmpty(pieces) ==
    IF pieces[Len(pieces)] = "" THEN SubSeq(pieces, 1, Len(pieces) - 1) ELSE pieces
SplitLines(content) == DropLastEmpty(Split(content))

\* "\n".join(lines[a:b])
RECURSIVE JoinLines(_, _, _)
JoinLines(lines, a, b) ==
    IF a >= b \/ a >= Len(lines) THEN ""
    ELSE lines[a + 1] \o
         (IF a + 1 < b /\ a + 1 < Len(lines) THEN "\n" ELSE "") \o
         JoinLines(lines, a + 1, b)

Spaces == Star(Str(" "))
\* what may follow a statement on its line: blanks and a comment
Trail == Cat(<<Spaces, Opt(Cat(<<Str("#"), Star(Dot)>>))>>)
PyDefLine ==
    Cat(<<Str("def"), Plus(Str(" ")), Grp(1, Plus(W)), ParenParams, Str(":"), Trail>>)
PyClassLine ==
    Cat(<<Str("class"), Plus(Str(" ")), Grp(1, Plus(W)), Str(":"), Trail>>)
PyPassLine == Cat(<<Str("pass"), Trail>>)
PyNameLine == Cat(<<Plus(Str(TwoByteChar)), Trail>>)
PyStringLine ==
    Cat(<<Str("\"\"\""), Grp(1, Star(NotIn({"\"", "\\"}))), Str("\"\"\""), Trail>>)

\* whether re matches the whole text t
Spans(m, t) == m.ok /\ m.end = Len(t)
FullMatch(re, t) == Spans(MatchAt(re, t, 0), t)

\* the statement with the text `text`, indented by indent, on line number n
PyStatementOf(text, indent, n, def, class, pass, string, name) ==
    LET base == [line |-> n, indent |-> indent, name |-> "", params |-> "", text |-> ""]
    IN IF Spans(def, text)
       THEN [base EXCEPT !.name = Group(text, def, 1), !.params = Group(text, def, 2)]
            @@ [kind |-> "def"]
       ELSE IF Spans(class, text)
       THEN [base EXCEPT !.name = Group(text, class, 1)] @@ [kind |-> "class"]
       ELSE IF Spans(pass, text) THEN base @@ [kind |-> "pass"]
       ELSE IF Spans(name, text) THEN base @@ [kind |-> "name"]
       ELSE IF Spans(string, text)
       THEN [base EXCEPT !.text = Group(text, string, 1)] @@ [kind |-> "string"]
       ELSE base @@ [kind |-> "invalid"]

PyStatementAt(text, indent, n) ==
    PyStatementOf(text, indent, n, MatchAt(PyDefLine, text, 0),
                  MatchAt(PyClassLine, text, 0), MatchAt(PyPassLine, text, 0),
                  MatchAt(PyStringLine, text, 0), MatchAt(PyNameLine, text, 0))

PyIndent(line) == SpanEnd(In({" "}), line, 0)

\* the statement on line number n, whose text is line
PyStatement(line, n) ==
    PyStatementAt(Slice(line, PyIndent(line), Len(line)), PyIndent(line), n)

\* a line with no statement: blank, or a comment
PyNoStatement(line) ==
    PyIndent(line) = Len(line) \/ At(line, PyIndent(line)) = "#"

\* the statements of the lines from line k on
RECURSIVE PyStatementsFrom(_, _)
PyStatementsFrom(lines, k) ==
    IF k > Len(lines) THEN <<>>
    ELSE (IF PyNoStatement(lines[k]) THEN <<>>
          ELSE <<PyStatement(lines[k], k)>>)
         \o PyStatementsFrom(lines, k + 1)

\* the statements of the text in source order
PyStatements(content) == PyStatementsFrom(Split(content), 1)

\* the tokenizer's indentation stack after a line indented by n
RECURSIVE Dedent(_, _)
Dedent(stack, n) ==
    IF stack[Len(stack)] > n THEN Dedent(SubSeq(stack, 1, Len(stack) - 1), n)
    ELSE stack

\* The block depth of each statement (0 for the module's own), or a
\* SyntaxError: a line outside the grammar, an indented line that opens no
\* block, a header with no indented block, an unindent to no open block.
PyDepthsCons(legal, depth, more) ==
    IF ~legal \/ ~more.ok THEN [ok |-> FALSE, depths |-> <<>>]
    ELSE [ok |-> TRUE, depths |-> <<depth>> \o more.depths]

RECURSIVE PyDepths(_, _, _, _)
PyDepthsStep(stmts, k, stack, after_header, now) ==
    LET st == stmts[k]
        top == stack[Len(stack)]
        legal == /\ st.kind # "invalid"
                 /\ IF after_header THEN st.indent > top
                    ELSE st.indent <= top /\ now[Len(now)] = st.indent
    IN PyDepthsCons(legal, Len(now) - 1,
                    PyDepths(stmts, k + 1, now, st.kind \in {"def", "class"}))

PyDepths(stmts, k, stack, after_header) ==
    IF k > Len(stmts)
    THEN [ok |-> ~after_header, depths |-> <<>>]
    ELSE PyDepthsStep(stmts, k, stack, after_header,
                      IF stmts[k].indent > stack[Len(stack)]
                      THEN Append(stack, stmts[k].indent)
                      ELSE Dedent(stack, stmts[k].indent))

\* ast.parse(content): the statements with their depths, or a SyntaxError
AstTree(stmts, d) ==
    IF d.ok THEN [ok |-> TRUE, stmts |-> stmts, depths |-> d.depths]
    ELSE [ok |-> FALSE]
AstOf(stmts) == AstTree(stmts, PyDepths(stmts, 1, <<0>>, FALSE))
AstParse(content) == AstOf(PyStatements(content))

\* the index of the last statement of the block statement k opens
PyLastOf(tree, k) ==
    Max({j \in k..Len(tree.stmts) :
           \A i \in (k + 1)..j : tree.depths[i] > tree.depths[k]})

\* node.body of the def or class at k: the indices of its own statements
PyBody(tree, k) ==
    {j \in (k + 1)..PyLastOf(tree, k) : tree.depths[j] = tree.depths[k] + 1}

\* the names in node.args.args, then **kwarg, joined with ", "
PyParam == Cat(<<Spaces, Grp(1, Cat(<<Opt(Str("**")), Plus(W)>>)), Spaces,
                 Alt(<<Str(","), Cat(<<>>)>>)>>)
RECURSIVE PyArgs(_, _)
PyArgsAt(params, p, m) ==
    IF p >= Len(params) \/ ~m.ok THEN ""
    ELSE Group(params, m, 1) \o
         (IF m.end < Len(params) THEN ", " ELSE "") \o PyArgs(params, m.end)
PyArgs(params, p) == PyArgsAt(params, p, MatchAt(PyParam, params, p))

\* variant: the docstring is never read
PyDocstringNone(tree, k) == ""

\* ast.get_docstring(node): the text of a string that is the first statement
\* of the body, without its leading blanks, else None, which the handler
\* turns into ""
PyDocstring(tree, k) ==
    LET first == tree.stmts[k + 1]
    IN IF first.kind = "string"
       THEN Slice(first.text, SpanEnd(In({" "}), first.text, 0), Len(first.text))
       ELSE ""

\* variant: the code sliced as lines[lineno - 1:end_lineno - 1]
PyFunctionExclusive(content, tree, k, qualifier) ==
    LET node == tree.stmts[k]
        end_lineno == tree.stmts[PyLastOf(tree, k)].line
    IN FunctionRecord(qualifier \o node.name,
                      "def " \o node.name \o "(" \o PyArgs(node.params, 0) \o ")",
                      PyDocstring(tree, k),
                      node.line,
                      end_lineno,
                      JoinLines(SplitLines(content), node.line - 1, end_lineno - 1))

\* the record of the def at k; qualifier is "" or the class name and a dot
PyFunction(content, tree, k, qualifier) ==
    LET node == tree.stmts[k]
        end_lineno == tree.stmts[PyLastOf(tree, k)].line
    IN FunctionRecord(qualifier \o node.name,
                      "def " \o node.name \o "(" \o PyArgs(node.params, 0) \o ")",
                      PyDocstring(tree, k),
                      node.line,
                      end_lineno,
                      JoinLines(SplitLines(content), node.line - 1, end_lineno))

\* the indices in S in increasing order
RECURSIVE Ascending(_)
Ascending(S) ==
    IF S = {} THEN <<>>
    ELSE <<Min(S)>> \o Ascending({k \in S : \E j \in S : j < k})

\* the records of the defs `methods` of the class at k
PyMethods(content, tree, k, methods) ==
    [i \in 1..Len(methods) |->
        PyFunction(content, tree, methods[i], tree.stmts[k].name \o ".")]

\* what the loop body appends for the node at k
PyVisit(content, tree, k) ==
    IF tree.stmts[k].kind = "def" THEN <<PyFunction(content, tree, k, "")>>
    ELSE IF tree.stmts[k].kind = "class"
    THEN PyMethods(content, tree, k,
                   Ascending({j \in PyBody(tree, k) : tree.stmts[j].kind = "def"}))
    ELSE <<>>

\* ast.walk(tree) is breadth first: the statements by depth, and in source
\* order within a depth
RECURSIVE PyLevel(_, _)
PyLevelOf(tree, d, at) == IF at = {} THEN <<>> ELSE Ascending(at) \o PyLevel(tree, d + 1)
PyLevel(tree, d) == PyLevelOf(tree, d, {k \in 1..Len(tree.stmts) : tree.depths[k] = d})
PyWalk(tree) == PyLevel(tree, 0)

\* `for node in ast.walk(tree):` over the nodes in `order`
PyVisitAll(content, tree, order) ==
    Flatten([i \in 1..Len(order) |-> PyVisit(content, tree, order[i])])

\* the try block and its `except SyntaxError`
PythonFunctions(content, tree) ==
    IF ~tree.ok THEN ExtractGenericFunctions(content)
    ELSE PyVisitAll(content, tree, PyWalk(tree))

ExtractPythonFunctions(content) == PythonFunctions(content, AstParse(content))

(***************************************************************************)
(* FunctionExtractor.extract_functions                                     *)
(***************************************************************************)
LowerAlphabet == "abcdefghijklmnopqrstuvwxyz"
UpperAlphabet == "ABCDEFGHIJKLMNOPQRSTUVWXYZ"

\* c.lower() and c.upper() for one ASCII character
LowerChar(c) ==
    IF c \in Upper
    THEN At(LowerAlphabet, CHOOSE p \in 0..25 : At(UpperAlphabet, p) = c)
    ELSE c
UpperChar(c) ==
    IF c \in Lower
    THEN At(UpperAlphabet, CHOOSE p \in 0..25 : At(LowerAlphabet, p) = c)
    ELSE c

\* s.lower()
RECURSIVE LowerStr(_)
LowerStr(s) == IF s = "" THEN "" ELSE LowerChar(Head(s)) \o LowerStr(Tail(s))

Returned(v) == [raised |-> FALSE, exc |-> "", value |-> v]
Raised(e)   == [raised |-> TRUE, exc |-> e, value |-> <<>>]

\* language.lower().split()[0].split('(')[0]; split() of a label with no
\* token is [], and [][0] raises IndexError
NormalizedOf(lowered) ==
    LET start == SpanEnd(Sp, lowered, 0)
        token == Slice(lowered, start, SpanEnd(NotIn(SpaceChars), lowered, start))
        paren == Find(token, "(", 0)
    IN IF start = Len(lowered) THEN Raised("IndexError")
       ELSE Returned(IF paren = -1 THEN token ELSE Slice(token, 0, paren))
NormalizedLang(language) == NormalizedOf(LowerStr(language))

\* the handler the if/elif chain selects
Handler(normalized_lang, content) ==
    CASE normalized_lang = "python" -> ExtractPythonFunctions(content)
      [] normalized_lang \in {"javascript", "typescript"} -> ExtractJsTsFunctions(content)
      [] normalized_lang \in {"c", "c++", "cpp"} -> ExtractCCppFunctions(content)
      [] normalized_lang = "java" -> ExtractJavaFunctions(content)
      [] normalized_lang \in {"ruby", "rb"} -> ExtractRubyFunctions(content)
      [] normalized_lang = "go" -> ExtractGoFunctions(content)
      [] normalized_lang = "rust" -> ExtractRustFunctions(content)
      [] OTHER -> ExtractGenericFunctions(content)

\* the exceptions of the selected handler the model derives from the text:
\* the ValueError of ast.parse
HandlerRaises(normalized_lang, content) ==
    normalized_lang = "python" /\ Count(content, LoneSurrogate) > 0

\* handler_fails: some other exception escapes the selected handler
\* (RecursionError, MemoryError); the try block turns every exception into []
Dispatch(file_content, normalized_lang, handler_fails) ==
    IF normalized_lang.raised THEN normalized_lang
    ELSE IF handler_fails \/ HandlerRaises(normalized_lang.value, file_content)
    THEN Returned(<<>>)
    ELSE Returned(Handler(normalized_lang.value, file_content))

ExtractFunctions(file_content, language, handler_fails) ==
    Dispatch(file_content, NormalizedLang(language), handler_fails)

(***************************************************************************)
(* LanguageDetector                                                        *)
(***************************************************************************)
\* EXTENSION_MAP, in the order the source lists it
ExtensionMap ==
    <<<<".html", "HTML">>, <<".htm", "HTML">>, <<".xhtml", "HTML">>,
       <<".css", "CSS">>, <<".scss", "SCSS">>, <<".sass", "Sass">>,
       <<".less", "Less">>, <<".js", "JavaScript">>,
       <<".jsx", "JavaScript (React)">>, <<".ts", "TypeScript">>,
       <<".tsx", "TypeScript (React)">>, <<".vue", "Vue.js">>,
       <<".svelte", "Svelte">>, <<".py", "Python">>, <<".pyx", "Cython">>,
       <<".ipynb", "Jupyter Notebook">>, <<".java", "Java">>,
       <<".class", "Java bytecode">>, <<".kt", "Kotlin">>,
       <<".kts", "Kotlin Script">>, <<".scala", "Scala">>,
       <<".groovy", "Groovy">>, <<".clj", "Clojure">>, <<".c", "C">>,
       <<".h", "C header">>, <<".cpp", "C++">>, <<".cc", "C++">>,
       <<".cxx", "C++">>, <<".hpp", "C++ header">>, <<".hxx", "C++ header">>,
       <<".cs", "C#">>, <<".vb", "Visual Basic">>, <<".go", "Go">>,
       <<".rs", "Rust">>, <<".swift", "Swift">>, <<".d", "D">>,
       <<".rb", "Ruby">>, <<".rbw", "Ruby">>, <<".php", "PHP">>,
       <<".pl", "Perl">>, <<".pm", "Perl module">>, <<".t", "Perl test">>,
       <<".sh", "Shell script">>, <<".bash", "Bash script">>,
       <<".zsh", "Zsh script">>, <<".ps1", "PowerShell">>, <<".lua", "Lua">>,
       <<".hs", "Haskell">>, <<".lhs", "Literate Haskell">>,
       <<".ml", "OCaml">>, <<".mli", "OCaml interface">>, <<".fs", "F#">>,
       <<".fsi", "F# interface">>, <<".fsx", "F# script">>,
       <<".elm", "Elm">>, <<".erl", "Erlang">>, <<".ex", "Elixir">>,
       <<".exs", "Elixir script">>, <<".json", "JSON">>, <<".yaml", "YAML">>,
       <<".yml", "YAML">>, <<".xml", "XML">>, <<".toml", "TOML">>,
       <<".ini", "INI">>, <<".csv", "CSV">>, <<".tsv", "TSV">>,
       <<".sql", "SQL">>, <<".md", "Markdown">>,
       <<".rst", "reStructuredText">>, <<".tex", "LaTeX">>, <<".r", "R">>,
       <<".dart", "Dart">>, <<".jl", "Julia">>, <<".nim", "Nim">>,
       <<".zig", "Zig">>, <<".v", "V">>, <<".crystal", "Crystal">> >>

ExtensionKeys == {ExtensionMap[i][1] : i \in DOMAIN ExtensionMap}
ExtensionLabel(ext) ==
    ExtensionMap[CHOOSE i \in DOMAIN ExtensionMap : ExtensionMap[i][1] = ext][2]

\* PATTERN_MAP, in order; every pattern starts with ^\s*
Signature(rs) == Cat(<<Bol, Star(Sp)>> \o rs)
PatternMap ==
    << <<Signature(<<Str("<?php")>>), "PHP">>,
       <<Signature(<<Str("<?=")>>), "PHP">>,
       <<Signature(<<Str("#!/usr/bin/env"), Plus(Sp), Str("python")>>), "Python">>,
       <<Signature(<<Str("#!/usr/bin/python")>>), "Python">>,
       <<Signature(<<Str("#!/bin/bash")>>), "Bash script">>,
       <<Signature(<<Str("#!/bin/sh")>>), "Shell script">>,
       <<Signature(<<Str("#!/usr/bin/env"), Plus(Sp), Str("node")>>), "JavaScript">>,
       <<Signature(<<Str("#!/usr/bin/env"), Plus(Sp), Str("ruby")>>), "Ruby">>,
       <<Signature(<<Str("#!/usr/bin/ruby")>>), "Ruby">>,
       <<Signature(<<Str("#!/usr/bin/env"), Plus(Sp), Str("perl")>>), "Perl">>,
       <<Signature(<<Str("#!/usr/bin/perl")>>), "Perl">>,
       <<Signature(<<Str("import"), Plus(Sp), Str("React")>>), "JavaScript (React)">>,
       <<Signature(<<Str("package"), Plus(Sp), Str("main")>>), "Go">>,
       <<Signature(<<Str("using"), Plus(Sp), Str("System;")>>), "C#">> >>

\* s.rfind(c) for a one-character c
MaxOr(hits, none) == IF hits = {} THEN none ELSE Max(hits)
RFind(s, c) == MaxOr({p \in 0..(Len(s) - 1) : At(s, p) = c}, -1)

\* os.path.splitext(p)[1]: from the last dot of the last component on, unless
\* only dots come before it in that component
SplitExt(p) ==
    LET sep_index == RFind(p, "/")
        dot_index == RFind(p, ".")
    IN IF dot_index > sep_index
          /\ \E q \in (sep_index + 1)..(dot_index - 1) : At(p, q) # "."
       THEN Slice(p, dot_index, Len(p))
       ELSE ""

\* os.path.basename(p)
Basename(p) == Slice(p, RFind(p, "/") + 1, Len(p))

\* s.startswith(prefix)
StartsWith(s, prefix) == Len(s) >= Len(prefix) /\ SubSeq(s, 1, Len(prefix)) = prefix

\* variant: the last pattern found in the content wins
LabelAt(j) == IF j = 0 THEN "" ELSE PatternMap[j][2]
LastSignature(content, k) ==
    LabelAt(MaxOr({j \in k..Len(PatternMap) : Search(PatternMap[j][1], content).ok}, 0))

\* the loop over PATTERN_MAP from entry k on: the label of the first pattern
\* found in the content, "" when the loop ends without a return
RECURSIVE FirstSignature(_, _)
FirstSignature(content, k) ==
    IF k > Len(PatternMap) THEN ""
    ELSE IF Search(PatternMap[k][1], content).ok THEN PatternMap[k][2]
    ELSE FirstSignature(content, k + 1)

\* the if/elif chain over the lower-cased file name, "" when none applies
FilenameGuess(filename) ==
    IF filename = "makefile" \/ StartsWith(filename, "makefile.") THEN "Makefile"
    ELSE IF filename = "dockerfile" \/ StartsWith(filename, "dockerfile.") THEN "Dockerfile"
    ELSE IF filename = "vagrantfile" THEN "Ruby (Vagrant)"
    ELSE IF filename = "jenkinsfile" THEN "Groovy (Jenkins)"
    ELSE IF filename \in {"package.json", "package-lock.json"} THEN "JSON (npm)"
    ELSE IF filename = "gemfile" THEN "Ruby (Bundler)"
    ELSE IF filename = "rakefile" THEN "Ruby (Rake)"
    ELSE IF filename \in {"requirements.txt", "setup.py"} THEN "Python (Package)"
    ELSE IF filename \in {"cargo.toml", "cargo.lock"} THEN "TOML (Rust)"
    ELSE ""

\* detect_language(file_path, content); given is FALSE when content is None
\* variant: no "Unknown" when the file name says nothing either
DetectStepsNoSentinel(ext, by_content, by_name) ==
    IF ext \in ExtensionKeys THEN ExtensionLabel(ext)
    ELSE IF by_content # "" THEN by_content
    ELSE by_name

\* the three steps in order, each given what it found ("" for nothing)
DetectSteps(ext, by_content, by_name) ==
    IF ext \in ExtensionKeys THEN ExtensionLabel(ext)
    ELSE IF by_content # "" THEN by_content
    ELSE IF by_name # "" THEN by_name
    ELSE "Unknown"

\* variant: the extension looked up as written, not lower-cased
DetectLanguageCaseSensitive(path, text, has_content) ==
    DetectSteps(SplitExt(path),
                IF has_content /\ text # "" THEN FirstSignature(text, 1) ELSE "",
                FilenameGuess(LowerStr(Basename(path))))

\* detect_language(file_path, content); has_content is FALSE when content is
\* None
DetectLanguage(path, text, has_content) ==
    DetectSteps(SplitExt(LowerStr(path)),
                IF has_content /\ text # "" THEN FirstSignature(text, 1) ELSE "",
                FilenameGuess(LowerStr(Basename(path))))

(***************************************************************************)
(* CodeParser.parse_file                                                   *)
(***************************************************************************)

\* len(content.encode('utf-8')), or the UnicodeEncodeError
EncodedLength(text) ==
    IF Count(text, LoneSurrogate) > 0 THEN Raised("UnicodeEncodeError")
    ELSE Returned(Len(text) + Count(text, TwoByteChar))

\* the outcome of parse_file given what its steps produced; component_fails
\* names the component whose call raises inside the try block: "detector",
\* "extractor" or "none".  The except branch encodes the content again.
ParseOutcome(path, text, component_fails, language, functions, size_bytes) ==
    IF component_fails = "none" /\ ~functions.raised /\ ~size_bytes.raised
    THEN Returned([path |-> path, language |-> language,
                   functions |-> functions.value,
                   size_bytes |-> size_bytes.value,
                   line_count |-> Count(text, "\n") + 1,
                   content |-> text])
    ELSE IF size_bytes.raised THEN size_bytes
    ELSE Returned([path |-> path, language |-> "Unknown", functions |-> <<>>,
                   size_bytes |-> size_bytes.value,
                   line_count |-> Count(text, "\n") + 1,
                   content |-> text,
                   error |-> IF component_fails # "none"
                             THEN component_fails \o " failed"
                             ELSE functions.exc])

ParseDetected(path, text, component_fails, language) ==
    ParseOutcome(path, text, component_fails, language,
                 ExtractFunctions(text, language, FALSE), EncodedLength(text))

ParseFile(path, text, component_fails) ==
    ParseDetected(path, text, component_fails, DetectLanguage(path, text, TRUE))

(***************************************************************************)
(* CodeParser.extract_documentation                                        *)
(***************************************************************************)

\* s.strip()
StripSpan(s, keep) ==
    IF keep = {} THEN "" ELSE Slice(s, Min(keep), Max(keep) + 1)
Strip(s) == StripSpan(s, {p \in 0..(Len(s) - 1) : At(s, p) \notin SpaceChars})

\* s.find(sub)
FindStr(s, sub) ==
    MinOr({p \in 0..(Len(s) - Len(sub)) : Slice(s, p, p + Len(sub)) = sub}, -1)

\* doc_patterns: the single-line marker, and the markers the loop looks up,
\* in its order: multi_*, jsdoc_*, alternate_multi_* ("" for a missing key;
\* Java's javadoc_* keys are never looked up)
PythonStyle == [single |-> "#", starts |-> <<"\"\"\"", "", "'''">>,
                ends |-> <<"\"\"\"", "", "'''">>]
JsStyle     == [single |-> "//", starts |-> <<"/*", "/**", "">>,
                ends |-> <<"*/", "*/", "">>]
CStyle      == [single |-> "//", starts |-> <<"/*", "", "">>,
                ends |-> <<"*/", "", "">>]
RubyStyle   == [single |-> "#", starts |-> <<"=begin", "", "">>,
                ends |-> <<"=end", "", "">>]

\* doc_patterns.get(language, the C style)
LangPatterns(lang) ==
    CASE lang = "Python" -> PythonStyle
      [] lang \in {"JavaScript", "TypeScript"} -> JsStyle
      [] lang = "Ruby" -> RubyStyle
      [] OTHER -> CStyle

\* the first start pattern line_content starts with, 0 when there is none
FirstStart(style, line_content) ==
    MinOr({j \in 1..3 : style.starts[j] # ""
                        /\ StartsWith(line_content, style.starts[j])}, 0)

\* the first end pattern found in text, 0 when there is none
FirstEnd(style, text) ==
    MinOr({j \in 1..3 : style.ends[j] # "" /\ FindStr(text, style.ends[j]) >= 0}, 0)

\* text[:text.find(end_pattern)].strip()
BeforeEnd(text, end_pattern) == Strip(Slice(text, 0, FindStr(text, end_pattern)))

\* variant: line numbers counted from 0
DocLineZeroBased(i) == i

\* the line of a fragment found at index i of the lines
DocLine(i) == i + 1

Fragment(type, text, i) == [type |-> type, content |-> text, line |-> DocLine(i)]

DocState(documentation, in_multi_comment, current_comment) ==
    [documentation |-> documentation, in_multi_comment |-> in_multi_comment,
     current_comment |-> current_comment]

\* a comment that starts and ends on the same line
SingleLineBlock(st, text, i) ==
    DocState(IF text # "" THEN Append(st.documentation, Fragment("multi", text, i))
             ELSE st.documentation,
             FALSE, "")

\* variant: the single-line block leaves the loop inside the comment
SingleLineBlockStaysOpen(st, style, current_comment, i) ==
    IF current_comment # "" /\ FirstEnd(style, current_comment) # 0
    THEN DocState(Append(st.documentation,
                         Fragment("multi",
                                  BeforeEnd(current_comment,
                                            style.ends[FirstEnd(style, current_comment)]),
                                  i)),
                  TRUE, current_comment)
    ELSE DocState(st.documentation, TRUE, current_comment)

\* the line starts with a start pattern; current_comment is what follows it
BlockStart(st, style, current_comment, i) ==
    IF current_comment # "" /\ FirstEnd(style, current_comment) # 0
    THEN SingleLineBlock(st,
                         BeforeEnd(current_comment,
                                   style.ends[FirstEnd(style, current_comment)]),
                         i)
    ELSE DocState(st.documentation, TRUE, current_comment)

\* the branch taken outside a multi-line comment
OutsideBlock(st, style, line_content, i, j) ==
    IF j = 0 THEN st
    ELSE BlockStart(st, style,
                    Strip(Slice(line_content, Len(style.starts[j]), Len(line_content))),
                    i)

\* variant: the lines between the opening and the closing line are dropped
InsideBlockSkipsLines(st, style, line_content, i, e) ==
    IF e # 0
    THEN DocState(Append(st.documentation,
                         Fragment("multi",
                                  st.current_comment \o " "
                                      \o BeforeEnd(line_content, style.ends[e]),
                                  i)),
                  FALSE, "")
    ELSE DocState(st.documentation, TRUE, st.current_comment)

\* the branch taken inside a multi-line comment; e is the end pattern found
InsideBlock(st, style, line_content, i, e) ==
    IF e # 0
    THEN DocState(Append(st.documentation,
                         Fragment("multi",
                                  st.current_comment \o " "
                                      \o BeforeEnd(line_content, style.ends[e]),
                                  i)),
                  FALSE, "")
    ELSE DocState(st.documentation, TRUE, st.current_comment \o " " \o line_content)

\* variant: the single-line check does not look at the block state
SingleLineAnywhere(st, style, line_content, i) ==
    IF style.single # "" /\ StartsWith(line_content, style.single)
       /\ Strip(Slice(line_content, Len(style.single), Len(line_content))) # ""
    THEN DocState(Append(st.documentation,
                         Fragment("single",
                                  Strip(Slice(line_content, Len(style.single),
                                              Len(line_content))),
                                  i)),
                  st.in_multi_comment, st.current_comment)
    ELSE st

\* the check for a single-line comment, on the state the branches left
SingleLine(st, style, line_content, i) ==
    IF style.single # "" /\ ~st.in_multi_comment
       /\ StartsWith(line_content, style.single)
       /\ Strip(Slice(line_content, Len(style.single), Len(line_content))) # ""
    THEN DocState(Append(st.documentation,
                         Fragment("single",
                                  Strip(Slice(line_content, Len(style.single),
                                              Len(line_content))),
                                  i)),
                  st.in_multi_comment, st.current_comment)
    ELSE st

\* one turn of the loop over the lines
DocStep(st, style, line_content, i) ==
    SingleLine(IF ~st.in_multi_comment
               THEN OutsideBlock(st, style, line_content, i,
                                 FirstStart(style, line_content))
               ELSE InsideBlock(st, style, line_content, i,
                                FirstEnd(style, line_content)),
               style, line_content, i)

\* the state of the loop after the first n lines
RECURSIVE DocScan(_, _, _)
DocScan(lines, style, n) ==
    IF n = 0 THEN DocState(<<>>, FALSE, "")
    ELSE DocStep(DocScan(lines, style, n - 1), style, Strip(lines[n]), n - 1)

DocLines(lines, lang) == DocScan(lines, LangPatterns(lang), Len(lines))

\* extract_documentation(content, language)
ExtractDocumentation(text, lang) == DocLines(Split(text), lang).documentation

(***************************************************************************)
(* CodeParser.parse_repository                                              *)
(***************************************************************************)

\* the loop of parse_repository after the first n entries of repo_files: the
\* records appended, the paths parse_file was called on, and the exception
\* that ended the loop, if one escaped parse_file
RepoState(parsed_files, scanned, failure) ==
    [parsed_files |-> parsed_files, scanned |-> scanned, failure |-> failure]

RepoAppend(st, file_path, parsed_file) ==
    IF parsed_file.raised
    THEN RepoState(st.parsed_files, Append(st.scanned, file_path), parsed_file.exc)
    ELSE RepoState(Append(st.parsed_files, parsed_file.value),
                   Append(st.scanned, file_path), "")

RepoStep(st, entry) ==
    IF st.failure # "" THEN st
    ELSE IF ~entry.has_content THEN st
    ELSE RepoAppend(st, entry.path, ParseFile(entry.path, entry.content, "none"))

RECURSIVE RepoScan(_, _)
RepoScan(repo_files, n) ==
    IF n = 0 THEN RepoState(<<>>, <<>>, "")
    ELSE RepoStep(RepoScan(repo_files, n - 1), repo_files[n])

\* parse_repository(repo_files); repo_files in the order of the dict
ParseRepository(repo_files) == RepoScan(repo_files, Len(repo_files))

(***************************************************************************)
(* RepoAnalyzer._process_file and _process_file_batch                       *)
(* (src/src/backend/analyzer/repo_analyzer.py).  A file of the batch is     *)
(* what the file system holds under its path: kind ("file", "dir" or        *)
(* "missing"), size in bytes, whether its bytes decode as UTF-8, and the    *)
(* decoded text; llm_fails and save_fails tell whether the language model   *)
(* and the database fail on it.                                             *)
(***************************************************************************)
SizeCeiling == 10 * 1024 * 1024

NoFileData ==
    [path |-> "", language |-> "", content |-> "", functions |-> <<>>,
     documentation |-> <<>>, summary |-> ""]

\* the outcome of _process_file: skipped (None returned) or file_data, and the
\* components invoked, in order
Skipped == [skipped |-> TRUE, file_data |-> NoFileData, invoked |-> <<>>]
Processed(file_data, invoked) ==
    [skipped |-> FALSE, file_data |-> file_data, invoked |-> invoked]

\* CodeSummarizer.summarize_file: the model's answer, or the error text
SummarizeFile(f) == IF f.llm_fails THEN "Error: llm" ELSE "Summary of " \o f.path

AllInvoked(path) ==
    << <<"detect_language", path>>, <<"extract_functions", path>>,
       <<"extract_documentation", path>>, <<"summarize_file", path>> >>

FileData(f, language, functions) ==
    IF functions.raised
    THEN [skipped |-> TRUE, file_data |-> NoFileData,
          invoked |-> SubSeq(AllInvoked(f.path), 1, 2)]
    ELSE Processed([path |-> f.path, language |-> language, content |-> f.text,
                    functions |-> functions.value,
                    documentation |-> ExtractDocumentation(f.text, language),
                    summary |-> SummarizeFile(f)],
                   AllInvoked(f.path))

Analyzed(f, language) ==
    FileData(f, language, ExtractFunctions(f.text, language, FALSE))

\* variant: the size is not looked at
ProcessFileAnySize(f) ==
    IF f.kind # "file" THEN Skipped
    ELSE IF ~f.decodes THEN Skipped
    ELSE Analyzed(f, DetectLanguage(f.path, f.text, TRUE))

\* _process_file(repository, file_path, temp_dir)
ProcessFile(f) ==
    IF f.kind # "file" THEN Skipped
    ELSE IF f.size > SizeCeiling THEN Skipped
    ELSE IF ~f.decodes THEN Skipped
    ELSE Analyzed(f, DetectLanguage(f.path, f.text, TRUE))

BatchState(results, saved, invoked) ==
    [results |-> results, saved |-> saved, invoked |-> invoked]

\* variant: the record joins the results only once it is saved
BatchStepSavedOnly(st, f, processed_file) ==
    IF processed_file.skipped \/ f.save_fails
    THEN BatchState(st.results, st.saved, st.invoked \o processed_file.invoked)
    ELSE BatchState(Append(st.results, processed_file.file_data),
                    Append(st.saved, processed_file.file_data),
                    st.invoked \o processed_file.invoked)

\* one turn of the loop of _process_file_batch
BatchStep(st, f, processed_file) ==
    IF processed_file.skipped
    THEN BatchState(st.results, st.saved, st.invoked \o processed_file.invoked)
    ELSE BatchState(Append(st.results, processed_file.file_data),
                    IF f.save_fails THEN st.saved
                    ELSE Append(st.saved, processed_file.file_data),
                    st.invoked \o processed_file.invoked)

RECURSIVE BatchScan(_, _)
BatchScan(batch, n) ==
    IF n = 0 THEN BatchState(<<>>, <<>>, <<>>)
    ELSE BatchStep(BatchScan(batch, n - 1), batch[n], ProcessFile(batch[n]))

\* _process_file_batch(repository, temp_dir, files)
ProcessFileBatch(batch) == BatchScan(batch, Len(batch))

(***************************************************************************)
(* RepoAnalyzer.analyze_repository and the DBClient calls it makes.  The    *)
(* repository is its document in the database; exists is FALSE when the    *)
(* database holds no document under repo_id.  The tree is what os.walk      *)
(* yields for the local path, one entry per file, in its order.             *)
(***************************************************************************)
NoMetrics == [file_count |-> 0, function_count |-> 0, languages |-> <<>>]
NoRepository ==
    [exists |-> FALSE, name |-> "", local_path |-> "", status |-> "",
     summary |-> "", metrics |-> NoMetrics]

\* DBClient.update_repository_status: update_one changes the document it
\* matches; a failure of the database is logged and leaves the status
UpdateRepositoryStatus(repo, status, db_fails) ==
    IF db_fails \/ ~repo.exists THEN repo ELSE [repo EXCEPT !.status = status]

\* DBClient.update_repository(repo_id, summary, metrics, status)
UpdateRepository(repo, summary, metrics, status, db_fails) ==
    IF db_fails \/ ~repo.exists THEN repo
    ELSE [repo EXCEPT !.summary = summary, !.metrics = metrics,
                      !.status = status]

\* DBClient.get_repository: TRUE when a Repository comes back, FALSE for None
\* (no document, or a failure of the database)
GetRepository(repo, db_fails) == repo.exists /\ ~db_fails

\* os.path.exists(temp_dir): the one directory on the disk
PathExists(temp_dir) == temp_dir = "/tmp/repo"

\* os.path.relpath(full_path, temp_dir) of a path under temp_dir
RelPath(full_path, temp_dir) ==
    Slice(full_path, Len(temp_dir) + 1, Len(full_path))

\* the walk of analyze_repository: hidden files and files under a directory
\* below .git are left out, the others are listed by their relative path
Hidden(entry) == StartsWith(entry.file, ".") \/ FindStr(entry.root, "/.git/") # -1
Listed(entry, temp_dir) ==
    [path |-> RelPath(entry.root \o "/" \o entry.file, temp_dir),
     kind |-> entry.kind, size |-> entry.size, decodes |-> entry.decodes,
     text |-> entry.text, llm_fails |-> entry.llm_fails,
     save_fails |-> entry.save_fails]
RECURSIVE ListFiles(_, _, _)
ListFiles(tree, temp_dir, n) ==
    IF n = 0 THEN <<>>
    ELSE IF Hidden(tree[n]) THEN ListFiles(tree, temp_dir, n - 1)
    ELSE Append(ListFiles(tree, temp_dir, n - 1), Listed(tree[n], temp_dir))

batch_size == 10

\* variant: the batches overlap by one file
FileBatchesOverlapping(all_files, size) ==
    [k \in 1..((Len(all_files) + size - 2) \div (size - 1)) |->
        SubSeq(all_files, (k - 1) * (size - 1) + 1,
               Min({(k - 1) * (size - 1) + size, Len(all_files)}))]

\* [all_files[i:i + batch_size] for i in range(0, len(all_files), batch_size)]
FileBatches(all_files, size) ==
    [k \in 1..((Len(all_files) + size - 1) \div size) |->
        SubSeq(all_files, (k - 1) * size + 1, Min({k * size, Len(all_files)}))]

\* all_processed_files.extend(processed_batch), with what the batch saved
\* and invoked
Extend(st, processed_batch) ==
    BatchState(st.results \o processed_batch.results,
               st.saved \o processed_batch.saved,
               st.invoked \o processed_batch.invoked)

\* the loop over file_batches, after n batches
RECURSIVE ProcessBatches(_, _)
ProcessBatches(file_batches, n) ==
    IF n = 0 THEN BatchState(<<>>, <<>>, <<>>)
    ELSE Extend(ProcessBatches(file_batches, n - 1),
                ProcessFileBatch(file_batches[n]))

\* _calculate_repository_metrics(files)
RECURSIVE FunctionCount(_, _)
FunctionCount(processed, n) ==
    IF n = 0 THEN 0
    ELSE FunctionCount(processed, n - 1) + Len(processed[n].functions)
CalculateRepositoryMetrics(processed) ==
    [file_count |-> Len(processed),
     function_count |-> FunctionCount(processed, Len(processed)),
     languages |->
        [l \in {processed[n].language : n \in DOMAIN processed} |->
            Cardinality({n \in DOMAIN processed : processed[n].language = l})]]

\* CodeSummarizer.summarize_repository inside its try: the model's answer, or
\* the text that stands for it when the call raises
SummarizeRepository(name, llm_fails) ==
    IF llm_fails THEN "Failed to generate summary: llm"
    ELSE "Summary of " \o name

\* the outcome of analyze_repository: the document afterwards, what is
\* returned, the batches made, all_processed_files, and what was saved and
\* invoked
Outcome(repo, value, file_batches, st) ==
    [repository |-> repo, ret |-> Returned(value), file_batches |-> file_batches,
     all_processed_files |-> st.results, saved |-> st.saved,
     invoked |-> st.invoked]
NothingProcessed == BatchState(<<>>, <<>>, <<>>)

\* from the metrics on: summary, update_repository, the success record
Finished(repo, file_batches, st, metrics, summary, f) ==
    Outcome(UpdateRepository(repo, summary, metrics, "analyzed", f = "update"),
            [status |-> "success", summary |-> summary, metrics |-> metrics],
            file_batches, st)

\* from the processed batches on
Batched(repo, file_batches, st, f) ==
    Finished(repo, file_batches, st, CalculateRepositoryMetrics(st.results),
             SummarizeRepository(repo.name, f = "summary"), f)

\* from the batches on
Batching(repo, file_batches, f) ==
    Batched(repo, file_batches, ProcessBatches(file_batches, Len(file_batches)), f)
Listing(repo, all_files, f) == Batching(repo, FileBatches(all_files, batch_size), f)

\* after update_repository_status(repo_id, "analyzing"): repo is the document
\* then.  The fault "walk" is an exception that escapes from the listing of the
\* files, which the except clause turns into the status "error".
Analyzing(repo, tree, f) ==
    IF ~GetRepository(repo, f = "get")
    THEN Outcome(repo, [error |-> "Repository not found"], <<>>, NothingProcessed)
    ELSE IF repo.local_path = "" \/ ~PathExists(repo.local_path)
    THEN Outcome(repo, [error |-> "Repository directory not found"], <<>>,
                 NothingProcessed)
    ELSE IF f = "walk"
    THEN Outcome(UpdateRepositoryStatus(repo, "error", FALSE),
                 [error |-> "walk"], <<>>, NothingProcessed)
    ELSE Listing(repo, ListFiles(tree, repo.local_path, Len(tree)), f)

\* analyze_repository(repo_id)
AnalyzeRepository(repo, tree, f) ==
    Analyzing(UpdateRepositoryStatus(repo, "analyzing", f = "status"), tree, f)

(***************************************************************************)
(* RepoLoaderFactory (src/src/backend/repo_manager/repo_loader_factory.py). *)
(* The registry _loaders is a function from loader types to loader classes. *)
(***************************************************************************)

\* cls._loaders[loader_type] = loader_class
Registered(registry, type, class) ==
    [t \in DOMAIN registry \cup {type} |-> IF t = type THEN class ELSE registry[t]]

\* register(loader_type, loader_class): register takes loader_type only, so
\* the call with two arguments raises TypeError before the body runs
RegisterWithClass(registry, type, class) ==
    [loaders |-> registry, ret |-> Raised("TypeError")]

\* register(loader_type)(loader_class): the decorator stores the class
RegisterDecorator(registry, type, class) ==
    [loaders |-> Registered(registry, type, class), ret |-> Returned(class)]

\* get_loader(loader_type): the class, or None for a type that is not there
None == "None"
GetLoader(registry, type) ==
    IF type \notin DOMAIN registry THEN Returned(None)
    ELSE Returned(registry[type])

(***************************************************************************)
(* The calls.  A state holds one call of one operation: its arguments, and  *)
(* once it has returned (pc = "return") its outcome.                        *)
(***************************************************************************)
VARIABLES
    op,         \* the operation called
    file_path,  \* file_path
    content,    \* content / file_content
    given,      \* detect_language: FALSE when content is None
    language,   \* extract_functions: the language label
    start_pos,  \* _find_closing_brace: start_pos
    fault,      \* what fails during the call: "none", "handler" (an exception
                \* escapes the selected handler), "detector" or "extractor"
                \* (that component's call raises inside parse_file)
    pc,         \* "call" before the operation runs, "return" after
    ret,        \* the outcome: Returned(value) or Raised(exception)
    files,      \* parse_repository: repo_files; _process_file_batch: files
    saved,      \* the documents db_client.save_file has stored, in order
    invoked,    \* the components called on each file, in order
    loaders,       \* RepoLoaderFactory._loaders
    loader_type,   \* register, get_loader: loader_type
    loader_class,  \* register: loader_class
    registered,    \* history: the class each type was last registered with
    repository,    \* analyze_repository: the repository's document
    file_batches,  \* analyze_repository: file_batches
    all_processed_files  \* analyze_repository: all_processed_files

vars == <<op, file_path, content, given, language, start_pos, fault, pc, ret,
          files, saved, invoked, loaders, loader_type, loader_class, registered,
          repository, file_batches, all_processed_files>>
factory == <<loaders, loader_type, loader_class, registered>>
analysis == <<repository, file_batches, all_processed_files>>
args == <<op, file_path, content, given, language, start_pos, fault, files,
          factory, analysis>>
effects == <<saved, invoked>>

\* the texts made of at most n of the parts, one after the other
RECURSIVE Texts(_, _)
Longer(shorter, parts) == shorter \cup {t \o p : t \in shorter, p \in parts}
Texts(parts, n) == IF n = 0 THEN {""} ELSE Longer(Texts(parts, n - 1), parts)

MaxParts == 2
MaxBraceParts == 4

\* no loader is registered and the factory is not called
NoLoaders == <<>>
NoFactory ==
    /\ loaders = NoLoaders /\ loader_type = "" /\ loader_class = ""
    /\ registered = NoLoaders

\* no repository is analyzed
NoAnalysis ==
    /\ repository = NoRepository /\ file_batches = <<>>
    /\ all_processed_files = <<>>

Call(o, path, text, g, lang, pos, f) ==
    /\ op = o /\ file_path = path /\ content = text /\ given = g
    /\ language = lang /\ start_pos = pos /\ fault = f
    /\ pc = "call" /\ ret = Returned(<<>>)
    /\ files = <<>> /\ saved = <<>> /\ invoked = <<>>
    /\ NoFactory /\ NoAnalysis

(***************************************************************************)
(* extract_functions on texts of each language family.                     *)
(***************************************************************************)
Families ==
    << [labels |-> {"Python"},
        parts |-> {"class A:\n", "    def m(self):\n        pass\n",
                   "def foo(a, b, **kwargs):\n", "    \"\"\"Doc.\"\"\"\n",
                   "    pass\n", "def g(x) {\n}\n", "\n", LoneSurrogate}],
       [labels |-> {"JavaScript", "TypeScript (React)"},
        parts |-> {"function add(a, b) { return a + b; }", "function f() {\n",
                   "}", "\n", "class C {\n  m() {\n", "const g = (x) => {"}],
       [labels |-> {"C", "C++"},
        parts |-> {"int f(int a) {", "}", "\n", " x;", "{"}],
       [labels |-> {"Java"},
        parts |-> {"class A {\n", "class B {\n", " public void m() {\n", "}",
                   " static int n(int a) throws E {", "\n", "class A {\n void a() {\n}}\n"}],
       [labels |-> {"Ruby"},
        parts |-> {"class A\n", "def m(a)\n", " end", "\n", "def n", " x",
                   "class B\ndef k\nend\n"}],
       [labels |-> {"Go"},
        parts |-> {"func f(a) {", "func g(a) int {\n", "func (r) h() {", "}",
                   "\n", "{"}],
       [labels |-> {"Rust"},
        parts |-> {"fn f() {", "pub fn g<T>(a) -> T {\n", "}", "\n", "{",
                   "fn h();"}],
       [labels |-> {"Unknown", "C#", "", " \t"},
        parts |-> {"function f(a)", "{", "}", "\n", "def g(a)",
                   " static int h() {", "const k = () =>"}] >>

ExtractInit ==
    \E k \in DOMAIN Families :
        \E lang \in Families[k].labels, text \in Texts(Families[k].parts, MaxParts),
           f \in {"none", "handler"} :
            Call("extract_functions", "src/file", text, TRUE, lang, 0, f)

ExtractFunctionsCall ==
    /\ op = "extract_functions" /\ pc = "call"
    /\ ret' = ExtractFunctions(content, language, fault = "handler")
    /\ pc' = "return"
    /\ UNCHANGED <<args, effects>>

ExtractNext == ExtractFunctionsCall
SpecExtractor == ExtractInit /\ [][ExtractNext]_vars

(***************************************************************************)
(* _find_closing_brace on texts of braces.                                 *)
(***************************************************************************)
BraceInit ==
    \E text \in Texts({"{", "}", "a"}, MaxBraceParts) :
        \E pos \in 0..Len(text) :
            Call("find_closing_brace", "", text, TRUE, "", pos, "none")

FindClosingBraceCall ==
    /\ op = "find_closing_brace" /\ pc = "call"
    /\ ret' = Returned(FindClosingBrace(content, start_pos))
    /\ pc' = "return"
    /\ UNCHANGED <<args, effects>>

BraceNext == FindClosingBraceCall
SpecBrace == BraceInit /\ [][BraceNext]_vars

(***************************************************************************)
(* detect_language on paths with and without an extension of the table.    *)
(***************************************************************************)
RECURSIVE UpperStr(_)
UpperStr(s) == IF s = "" THEN "" ELSE UpperChar(Head(s)) \o UpperStr(Tail(s))

\* .py -> .Py
Capitalized(s) ==
    IF Len(s) < 2 THEN s ELSE "." \o UpperChar(At(s, 1)) \o Slice(s, 2, Len(s))

DetectStems == {"file", "src/my.app", "", "lib/."}
DetectExtensions == ExtensionKeys \cup {".txt", ".xyz", ""}
DetectNames == {"Makefile", "Dockerfile.dev", "Gemfile", "requirements.txt",
                "Cargo.lock", "build/Rakefile", "README", "makefile.py/x"}
DetectPaths ==
    {stem \o e : stem \in DetectStems,
                 e \in UNION {{x, UpperStr(x), Capitalized(x)} : x \in DetectExtensions}}
    \cup DetectNames
DetectContents ==
    {"", "This is just plain text", "def main():\n    print('Hello')",
     "{\"name\": \"test\", \"value\": 123}", "#!/usr/bin/env python\nimport os",
     "// header\n  <?php echo 1;", "#!/bin/bash\n<?php", "import React\npackage main",
     "x = 1 # package main"}

DetectInit ==
    \E path \in DetectPaths :
        \/ \E text \in DetectContents :
               Call("detect_language", path, text, TRUE, "", 0, "none")
        \/ Call("detect_language", path, "", FALSE, "", 0, "none")

DetectLanguageCall ==
    /\ op = "detect_language" /\ pc = "call"
    /\ ret' = Returned(DetectLanguage(file_path, content, given))
    /\ pc' = "return"
    /\ UNCHANGED <<args, effects>>

DetectNext == DetectLanguageCall
SpecDetector == DetectInit /\ [][DetectNext]_vars

(***************************************************************************)
(* parse_file.                                                             *)
(***************************************************************************)
ParsePaths == {"app.py", "lib/x.js", "notes.txt", "Makefile", "script"}
ParseParts == {"def f(a):\n    pass\n", "function f() {\n", "}",
               "#!/usr/bin/env python\n", "\n", TwoByteChar, LoneSurrogate}

ParseInit ==
    \E path \in ParsePaths, text \in Texts(ParseParts, MaxParts),
       f \in {"none", "detector", "extractor"} :
        Call("parse_file", path, text, TRUE, "", 0, f)

ParseFileCall ==
    /\ op = "parse_file" /\ pc = "call"
    /\ ret' = ParseFile(file_path, content, fault)
    /\ pc' = "return"
    /\ UNCHANGED <<args, effects>>

ParseNext == ParseFileCall
SpecParser == ParseInit /\ [][ParseNext]_vars

(***************************************************************************)
(* extract_documentation on texts of each comment style.                   *)
(***************************************************************************)
MaxDocParts == 3

DocFamilies ==
    << [labels |-> {"Python"},
        parts |-> {"\"\"\"Module doc.\"\"\"", "\n", "\"\"\"", "# note", " x ",
                   "'''a\"\"\"b'''", "\"\"\"\"\"\"", "\"\"\"Doc\n", "more\n",
                   "# end.'''"}],
       [labels |-> {"JavaScript", "TypeScript"},
        parts |-> {"/** Adds. */", "/*", "*/", "// c", "\n", " x", "//",
                   "/* a\n", "// b */"}],
       [labels |-> {"Ruby"},
        parts |-> {"=begin", "=end", "=begin a =end", "# r", "\n", " x",
                   "=begin a\n", "b\n"}],
       [labels |-> {"Java", "Go", "Unknown", ""},
        parts |-> {"/* a */", "/*", "*/", "// c", "\n", "\t", "x", "/* a\n"}] >>

DocInit ==
    \E k \in DOMAIN DocFamilies :
        \E lang \in DocFamilies[k].labels,
           text \in Texts(DocFamilies[k].parts, MaxDocParts) :
            Call("extract_documentation", "", text, TRUE, lang, 0, "none")

ExtractDocumentationCall ==
    /\ op = "extract_documentation" /\ pc = "call"
    /\ ret' = Returned(ExtractDocumentation(content, language))
    /\ pc' = "return"
    /\ UNCHANGED <<args, effects>>

DocNext == ExtractDocumentationCall
SpecDocs == DocInit /\ [][DocNext]_vars

(***************************************************************************)
(* parse_repository and _process_file_batch on batches of files.           *)
(***************************************************************************)
MaxFiles == 3

BatchCall(o, batch) ==
    /\ op = o /\ file_path = "" /\ content = "" /\ given = TRUE
    /\ language = "" /\ start_pos = 0 /\ fault = "none"
    /\ pc = "call" /\ ret = Returned(<<>>)
    /\ files = batch /\ saved = <<>> /\ invoked = <<>>
    /\ NoFactory /\ NoAnalysis

\* the sequences of 1..n members of S
Batches(S, n) == UNION {[1..k -> S] : k \in 1..n}
Distinct(batch) ==
    \A a, b \in DOMAIN batch : a # b => batch[a].path # batch[b].path

RepoEntry(path, has_content, text) ==
    [path |-> path, has_content |-> has_content, content |-> text]
RepoEntries ==
    {RepoEntry("a.py", TRUE, "def f(a):\n    pass\n"),
     RepoEntry("b.js", TRUE, "function f() {\n}"),
     RepoEntry("notes.txt", TRUE, ""),
     RepoEntry("img.png", FALSE, ""),
     RepoEntry("skip.py", FALSE, ""),
     RepoEntry("odd.py", TRUE, LoneSurrogate)}

RepoInit ==
    \E batch \in Batches(RepoEntries, MaxFiles) :
        Distinct(batch) /\ BatchCall("parse_repository", batch)

ParseRepositoryCall ==
    /\ op = "parse_repository" /\ pc = "call"
    /\ ret' = IF ParseRepository(files).failure # ""
              THEN Raised(ParseRepository(files).failure)
              ELSE Returned(ParseRepository(files).parsed_files)
    /\ invoked' = ParseRepository(files).scanned
    /\ pc' = "return"
    /\ UNCHANGED <<args, saved>>

\* size is os.path.getsize of the file: the texts of the model stay short,
\* so the sizes around the ceiling are given with a short text
DiskFile(path, kind, size, decodes, text, llm_fails, save_fails) ==
    [path |-> path, kind |-> kind, size |-> size, decodes |-> decodes,
     text |-> text, llm_fails |-> llm_fails, save_fails |-> save_fails]
DiskFiles ==
    {DiskFile("a.py", "file", 19, TRUE, "def f(a):\n    pass\n", FALSE, FALSE),
     DiskFile("b.js", "file", 21, TRUE, "// c\nfunction f() {\n}", TRUE, FALSE),
     DiskFile("c.rb", "file", 3, TRUE, "# r", FALSE, TRUE),
     DiskFile("edge.py", "file", SizeCeiling, TRUE, "\"\"\"Module doc.\"\"\"", FALSE, FALSE),
     DiskFile("big.py", "file", SizeCeiling + 1, TRUE, "# big", FALSE, FALSE),
     DiskFile("bin.dat", "file", 4, FALSE, "", FALSE, FALSE),
     DiskFile("lib", "dir", 0, FALSE, "", FALSE, FALSE),
     DiskFile("gone.py", "missing", 0, FALSE, "", FALSE, FALSE)}

BatchInit ==
    \E batch \in Batches(DiskFiles, MaxFiles) :
        BatchCall("process_file_batch", batch)

ProcessFileBatchCall ==
    /\ op = "process_file_batch" /\ pc = "call"
    /\ ret' = Returned(ProcessFileBatch(files).results)
    /\ saved' = ProcessFileBatch(files).saved
    /\ invoked' = ProcessFileBatch(files).invoked
    /\ pc' = "return"
    /\ UNCHANGED args

BatchNext == ParseRepositoryCall \/ ProcessFileBatchCall
SpecBatch == (RepoInit \/ BatchInit) /\ [][BatchNext]_vars

(***************************************************************************)
(* RepoLoaderFactory: registrations and lookups, in any order.             *)
(***************************************************************************)
LoaderTypes == {"local", "zip", "test"}
LoaderClasses == {"LocalLoader", "ZipLoader", "MockLoader"}

FactoryInit ==
    /\ op = "import" /\ file_path = "" /\ content = "" /\ given = TRUE
    /\ language = "" /\ start_pos = 0 /\ fault = "none"
    /\ pc = "return" /\ ret = Returned(<<>>)
    /\ files = <<>> /\ saved = <<>> /\ invoked = <<>>
    /\ NoFactory /\ NoAnalysis

FactoryCall(o, type, class) ==
    /\ op \in {"import", "register", "register_decorator", "get_loader"}
    /\ op' = o /\ loader_type' = type /\ loader_class' = class
    /\ UNCHANGED <<file_path, content, given, language, start_pos, fault, pc,
                   files, saved, invoked, analysis>>

RegisterCall ==
    \E type \in LoaderTypes, class \in LoaderClasses :
        /\ FactoryCall("register", type, class)
        /\ loaders' = RegisterWithClass(loaders, type, class).loaders
        /\ ret' = RegisterWithClass(loaders, type, class).ret
        /\ registered' = Registered(registered, type, class)

RegisterDecoratorCall ==
    \E type \in LoaderTypes, class \in LoaderClasses :
        /\ FactoryCall("register_decorator", type, class)
        /\ loaders' = RegisterDecorator(loaders, type, class).loaders
        /\ ret' = RegisterDecorator(loaders, type, class).ret
        /\ registered' = Registered(registered, type, class)

GetLoaderCall ==
    \E type \in LoaderTypes \cup {"invalid_type"} :
        /\ FactoryCall("get_loader", type, "")
        /\ ret' = GetLoader(loaders, type)
        /\ UNCHANGED <<loaders, registered>>

FactoryNext == RegisterCall \/ RegisterDecoratorCall \/ GetLoaderCall
SpecFactory == FactoryInit /\ [][FactoryNext]_vars

(***************************************************************************)
(* analyze_repository on repositories and trees of files.                  *)
(***************************************************************************)
MaxWalked == 27

\* str(i)
RECURSIVE Decimal(_)
Decimal(i) ==
    IF i < 10 THEN Slice("0123456789", i, i + 1)
    ELSE Decimal(i \div 10) \o Slice("0123456789", i % 10, (i % 10) + 1)

\* the i-th file os.walk yields under /tmp/repo: its directory, its name and
\* what the disk holds
WalkRoot(i) ==
    IF i % 7 = 3 THEN "/tmp/repo/.git/objects"
    ELSE IF i % 7 = 0 THEN "/tmp/repo/.git"
    ELSE IF i % 3 = 0 THEN "/tmp/repo/src"
    ELSE "/tmp/repo"
WalkEntry(root, file, kind, decodes, text, llm_fails, save_fails) ==
    [root |-> root, file |-> file, kind |-> kind, size |-> Len(text),
     decodes |-> decodes, text |-> text, llm_fails |-> llm_fails,
     save_fails |-> save_fails]
Walked(i) ==
    IF i % 5 = 0
    THEN WalkEntry(WalkRoot(i), "m" \o Decimal(i) \o ".py", "file", TRUE,
                   "def f(a):\n    pass\n", FALSE, FALSE)
    ELSE IF i % 5 = 1
    THEN WalkEntry(WalkRoot(i), "r" \o Decimal(i) \o ".rb", "file", TRUE,
                   "# r", i % 2 = 0, i % 2 = 1)
    ELSE IF i % 5 = 2
    THEN WalkEntry(WalkRoot(i), "b" \o Decimal(i) \o ".dat", "file", FALSE,
                   "", FALSE, FALSE)
    ELSE IF i % 10 = 3
    THEN WalkEntry(WalkRoot(i), ".h" \o Decimal(i), "file", TRUE, "x", FALSE,
                   FALSE)
    ELSE IF i % 10 = 8
    THEN WalkEntry(WalkRoot(i), "j" \o Decimal(i) \o ".js", "file", TRUE,
                   "// c", FALSE, FALSE)
    ELSE WalkEntry(WalkRoot(i), "t" \o Decimal(i) \o ".txt", "file", TRUE,
                   "", FALSE, FALSE)

\* the trees: the files from one of the first three on, at most MaxWalked
Trees ==
    {[n \in 1..k |-> Walked(first + n - 1)] : first \in 1..3, k \in 0..MaxWalked}

Repositories ==
    {NoRepository} \cup
    {[exists |-> TRUE, name |-> "repo", local_path |-> local_path,
      status |-> status, summary |-> "", metrics |-> NoMetrics] :
        local_path \in {"", "/tmp/gone", "/tmp/repo"},
        status \in {"processing", "analyzed"}}

\* what fails during analyze_repository: "status" (update_repository_status),
\* "get" (get_repository), "update" (update_repository): the database fails
\* in that call; "summary": summarize_repository raises; "walk": the listing
\* of the files raises
AnalyzeFaults == {"none", "status", "get", "walk", "summary", "update"}

AnalyzeInit ==
    \E repo \in Repositories, tree \in Trees, f \in AnalyzeFaults :
        /\ op = "analyze_repository" /\ file_path = "" /\ content = ""
        /\ given = TRUE /\ language = "" /\ start_pos = 0 /\ fault = f
        /\ pc = "call" /\ ret = Returned(<<>>)
        /\ files = tree /\ saved = <<>> /\ invoked = <<>>
        /\ NoFactory
        /\ repository = repo /\ file_batches = <<>>
        /\ all_processed_files = <<>>

AnalysisDone(outcome) ==
    /\ repository' = outcome.repository
    /\ ret' = outcome.ret
    /\ file_batches' = outcome.file_batches
    /\ all_processed_files' = outcome.all_processed_files
    /\ saved' = outcome.saved
    /\ invoked' = outcome.invoked

AnalyzeRepositoryCall ==
    /\ op = "analyze_repository" /\ pc = "call"
    /\ AnalysisDone(AnalyzeRepository(repository, files, fault))
    /\ pc' = "return"
    /\ UNCHANGED <<op, file_path, content, given, language, start_pos, fault,
                   files, factory>>

AnalyzeNext == AnalyzeRepositoryCall
SpecAnalyze == AnalyzeInit /\ [][AnalyzeNext]_vars

(***************************************************************************)
(* Every call.                                                             *)
(***************************************************************************)
Init ==
    \/ ExtractInit \/ BraceInit \/ DetectInit \/ ParseInit \/ DocInit
    \/ RepoInit \/ BatchInit \/ FactoryInit \/ AnalyzeInit
Next ==
    \/ ExtractFunctionsCall \/ FindClosingBraceCall \/ DetectLanguageCall
    \/ ParseFileCall \/ ExtractDocumentationCall
    \/ ParseRepositoryCall \/ ProcessFileBatchCall
    \/ RegisterCall \/ RegisterDecoratorCall \/ GetLoaderCall
    \/ AnalyzeRepositoryCall
Spec == Init /\ [][Next]_vars

(***************************************************************************)
(* Properties.                                                              *)
(***************************************************************************)
Done(o) == op = o /\ pc = "return"

\* s.endswith(suffix)
EndsWith(s, suffix) ==
    Len(s) >= Len(suffix) /\ SubSeq(s, Len(s) - Len(suffix) + 1, Len(s)) = suffix

\* C1: parse_file never raises: for every path and content it returns a
\* record, and when a component fails inside it the record has language
\* "Unknown", no functions, an error field, and the size_bytes and line_count
\* of the content.
C1_ParseFileNeverRaises ==
    Done("parse_file") =>
        /\ ~ret.raised
        /\ ret.value.size_bytes = Len(content) + Count(content, TwoByteChar)
        /\ ret.value.line_count = Count(content, "\n") + 1
        /\ fault # "none" =>
              /\ ret.value.language = "Unknown"
              /\ ret.value.functions = <<>>
              /\ "error" \in DOMAIN ret.value

\* C2: extract_functions never raises and always returns a list, for every
\* content and every language label, the empty and the whitespace-only label
\* included; a failure of the selected handler yields the empty list.
C2_ExtractFunctionsNeverRaises ==
    Done("extract_functions") =>
        /\ ~ret.raised
        /\ fault = "handler" => ret.value = <<>>

\* the signatures the content matches, and whether the path and the content
\* give the detector nothing to go by
MatchingSignatures ==
    {k \in DOMAIN PatternMap : given /\ Search(PatternMap[k][1], content).ok}
NothingMatches ==
    /\ SplitExt(LowerStr(file_path)) \notin ExtensionKeys
    /\ MatchingSignatures = {}
    /\ FilenameGuess(LowerStr(Basename(file_path))) = ""

\* C3: detect_language never raises and always returns a string; when the
\* path's extension is not in the table, the content matches no signature
\* and the file name matches no heuristic, it returns "Unknown": so for
\* "file.txt" with Python-looking or JSON-looking content and for "file.xyz"
\* with plain text.
C3_UnknownWhenNothingMatches ==
    Done("detect_language") =>
        /\ ~ret.raised
        /\ ret.value \in STRING
        /\ NothingMatches => ret.value = "Unknown"
        /\ (/\ file_path \in {"file.txt", "file.xyz"}
            /\ content \in {"def main():\n    print('Hello')",
                            "{\"name\": \"test\", \"value\": 123}",
                            "This is just plain text"})
           => ret.value = "Unknown"

C3_Witness ==
    /\ Done("detect_language") /\ NothingMatches
    /\ file_path = "file.txt" /\ given
    /\ content = "def main():\n    print('Hello')"
    /\ ret.value = "Unknown"

\* the path has a last component with a character other than "." before its
\* final n characters
HasStem(path, n) ==
    \E q \in 0..(Len(path) - n - 1) :
        /\ At(path, q) \notin {".", "/"}
        /\ \A r \in q..(Len(path) - 1) : At(path, r) # "/"

\* C4 as stated: for every extension of the table and every content,
\* detect_language on a path ending in that extension, in any letter case,
\* returns the table's label for that extension.
C4_AnyPathEndingInExtension ==
    Done("detect_language") =>
        \A i \in DOMAIN ExtensionMap :
            EndsWith(LowerStr(file_path), ExtensionMap[i][1])
            => ret.value = ExtensionMap[i][2]

\* C4, amended: for every extension of the table and every content,
\* detect_language on a path ending in that extension, in any letter case,
\* whose last component has a character other than "." before the extension,
\* returns the table's label for that extension.
C4_ExtensionLabel ==
    Done("detect_language") =>
        \A i \in DOMAIN ExtensionMap :
            (/\ EndsWith(LowerStr(file_path), ExtensionMap[i][1])
             /\ HasStem(file_path, Len(ExtensionMap[i][1])))
            => ret.value = ExtensionMap[i][2]

C4_Witness ==
    /\ Done("detect_language")
    /\ file_path = "file.PY" /\ given /\ content = "#!/bin/bash\n<?php"
    /\ MatchingSignatures # {}
    /\ ret.value = "Python"

\* C5: when the path's extension is not in the table and content is given
\* that matches a signature, detect_language returns the label of the first
\* signature in table order that matches; the file-name heuristics and
\* "Unknown" are reached only when no signature matches.
C5_FirstSignatureWins ==
    (Done("detect_language") /\ SplitExt(LowerStr(file_path)) \notin ExtensionKeys) =>
        IF MatchingSignatures # {}
        THEN ret.value = PatternMap[Min(MatchingSignatures)][2]
        ELSE ret.value \in {FilenameGuess(LowerStr(Basename(file_path))), "Unknown"}

C5_Witness ==
    /\ Done("detect_language")
    /\ file_path = "Makefile" /\ content = "#!/bin/bash\n<?php"
    /\ Cardinality(MatchingSignatures) = 2
    /\ ret.value = "PHP"

\* the records a call of extract_functions returned
ReturnedRecords ==
    IF Done("extract_functions") /\ ~ret.raised
    THEN {ret.value[i] : i \in DOMAIN ret.value} ELSE {}

\* C6: every record extract_functions returns, from every handler and for
\* every content, unbalanced braces or `end` keywords included, has
\* 1 <= start_line <= end_line.
C6_LineOrder ==
    \A f \in ReturnedRecords : 1 <= f.start_line /\ f.start_line <= f.end_line

C6_Witness ==
    /\ language = "JavaScript" /\ content = "\nfunction f() {\n"
    /\ FindClosingBrace(content, Len(content) - 1) = -1
    /\ \E f \in ReturnedRecords : f.name = "f" /\ f.start_line = 2 /\ f.end_line = 2

\* C7: the code of every record extract_functions returns, split on newline
\* characters, has exactly end_line - start_line + 1 lines.
C7_CodeLineCount ==
    \A f \in ReturnedRecords :
        Len(Split(f.code)) = f.end_line - f.start_line + 1

C7_Witness ==
    /\ language = "Python"
    /\ \E f \in ReturnedRecords :
          /\ f.name = "foo" /\ f.start_line = 1 /\ f.end_line = 2
          /\ f.code = "def foo(a, b, **kwargs):\n    pass"

\* the running depth after the characters at offsets start..p-1: 1, plus one
\* per "{", minus one per "}"
Depth(text, start, p) ==
    1 + Count(Slice(text, start, p), "{") - Count(Slice(text, start, p), "}")
\* the offsets just after a character at which the depth is 0
Closings(text, start) ==
    {p \in (start + 1)..Len(text) : Depth(text, start, p) = 0}

OneJsFunction(text) ==
    /\ MatchAt(JsFunctionDecl, text, 0).ok
    /\ FindClosingBrace(text, MatchAt(JsFunctionDecl, text, 0).end) = Len(text)

\* C9: for JavaScript content that is one named function declaration with a
\* balanced body, such as `function add(a, b) { return a + b; }`,
\* extract_functions yields exactly one record, named after the function,
\* whose code has as many "{" as "}".
C9_OneRecordPerJsFunction ==
    (/\ Done("extract_functions") /\ language = "JavaScript" /\ fault = "none"
     /\ OneJsFunction(content))
    => /\ Len(ret.value) = 1
       /\ ret.value[1].name = Group(content, MatchAt(JsFunctionDecl, content, 0), 1)
       /\ Count(ret.value[1].code, "{") = Count(ret.value[1].code, "}")

\* the content is one class whose body is one method
OneClassOneMethod(tree) ==
    /\ tree.ok /\ Len(tree.stmts) >= 3
    /\ tree.stmts[1].kind = "class" /\ tree.depths[1] = 0
    /\ tree.stmts[2].kind = "def" /\ tree.depths[2] = 1
    /\ \A k \in 3..Len(tree.stmts) :
          tree.stmts[k].kind \notin {"def", "class"} /\ tree.depths[k] = 2

\* C10: for a Python file that is one class with one method,
\* extract_functions yields a single record for the method, named
\* ClassName.method_name.
C10_OneRecordPerMethod ==
    (/\ Done("extract_functions") /\ language = "Python" /\ fault = "none"
     /\ OneClassOneMethod(AstParse(content)))
    => /\ Len(ret.value) = 1
       /\ ret.value[1].name =
             AstParse(content).stmts[1].name \o "." \o AstParse(content).stmts[2].name

\* the content is one module-level function and its body, which holds no
\* other function or class
OneModuleFunction(tree) ==
    /\ tree.ok /\ Len(tree.stmts) >= 2
    /\ tree.stmts[1].kind = "def" /\ tree.depths[1] = 0
    /\ \A k \in 2..Len(tree.stmts) :
          tree.stmts[k].kind \notin {"def", "class"} /\ tree.depths[k] = 1

\* the docstring of the function at statement 1: the text of its first
\* statement when that is a string, else ""
FirstDocstring(tree) ==
    IF tree.stmts[2].kind = "string" THEN tree.stmts[2].text ELSE ""

\* C11: for a Python file that is one module-level function
\* `def foo(a, b, **kwargs):`, extract_functions yields one record named
\* "foo" whose signature lists the positional parameters in order and then
\* the keyword catch-all as **kwargs ("a, b, **kwargs"), and whose
\* description is the docstring text, "" when the body starts with none.
C11_PythonFunctionRecord ==
    (/\ Done("extract_functions") /\ language = "Python" /\ fault = "none"
     /\ OneModuleFunction(AstParse(content))
     /\ Split(content)[1] = "def foo(a, b, **kwargs):")
    => /\ Len(ret.value) = 1
       /\ ret.value[1].name = "foo"
       /\ ret.value[1].signature = "def foo(a, b, **kwargs)"
       /\ ret.value[1].description = FirstDocstring(AstParse(content))
       /\ content = "def foo(a, b, **kwargs):\n    \"\"\"Doc.\"\"\"\n"
          => ret.value[1].description = "Doc."
       /\ content = "def foo(a, b, **kwargs):\n    pass\n"
          => ret.value[1].description = ""

C11_Witness ==
    /\ Done("extract_functions") /\ language = "Python" /\ fault = "none"
    /\ content = "def foo(a, b, **kwargs):\n    \"\"\"Doc.\"\"\"\n"
    /\ Len(ret.value) = 1 /\ ret.value[1].description = "Doc."

\* the block-start markers of a style the stripped line begins with, and the
\* closing markers found in a text
StartsOf(style, line_content) ==
    {style.starts[j] : j \in {n \in 1..3 : style.starts[n] # ""
                                           /\ StartsWith(line_content, style.starts[n])}}
EndsIn(style, text) ==
    {style.ends[j] : j \in {n \in 1..3 : style.ends[n] # ""
                                         /\ FindStr(text, style.ends[n]) >= 0}}
AfterMarker(line_content, marker) ==
    Slice(line_content, Len(marker), Len(line_content))

\* the texts between a start marker the line begins with and a closing marker
\* after it
Betweens(style, line_content) ==
    UNION {{Strip(Slice(AfterMarker(line_content, s), 0,
                        FindStr(AfterMarker(line_content, s), e))) :
                e \in EndsIn(style, AfterMarker(line_content, s))} :
           s \in StartsOf(style, line_content)}

\* the line opens a block and closes it: it begins with a start marker and
\* a closing marker follows
ClosedOnLine(style, line_content) == Betweens(style, line_content) # {}

\* the text between the first start marker of the table the line begins
\* with and the closing marker, the table's first one taken when the line has
\* several
TextBetween(style, line_content) ==
    LET s == style.starts[Min({j \in 1..3 : style.starts[j] # ""
                                   /\ StartsWith(line_content, style.starts[j])})]
        rest == Strip(AfterMarker(line_content, s))
        e == style.ends[Min({j \in 1..3 : style.ends[j] # ""
                                 /\ FindStr(rest, style.ends[j]) >= 0})]
    IN Strip(Slice(rest, 0, FindStr(rest, e)))

\* the loop is outside a block comment when it reaches line k / leaves line k
BlockStateAfter(k) ==
    DocScan(Split(content), LangPatterns(language), k).in_multi_comment

\* the lines that open and close a block while the loop is outside a block
SingleLineBlocks ==
    {k \in 1..Len(Split(content)) :
        /\ ~BlockStateAfter(k - 1)
        /\ ClosedOnLine(LangPatterns(language), Strip(Split(content)[k]))}

\* the multi fragments returned for line k
MultiAt(k) ==
    SelectSeq(ret.value, LAMBDA d : d.type = "multi" /\ d.line = k)

ModuleDocFragment == [type |-> "multi", content |-> "Module doc.", line |-> 1]

ModuleDocFirst ==
    /\ language = "Python" /\ Split(content)[1] = "\"\"\"Module doc.\"\"\""
    => /\ SelectSeq(ret.value, LAMBDA d : d.line = 1) = <<ModuleDocFragment>>
       /\ Len(Split(content)) = 1 => ret.value = <<ModuleDocFragment>>

\* C12 as stated: a line whose stripped text begins with a block-start marker
\* and contains a closing marker after it emits a multi fragment for that
\* line, whose content is the text between the markers, and leaves the
\* extractor outside block state; Python content whose first line is
\* """Module doc.""" gives exactly one multi fragment "Module doc." at line 1.
C12_SingleLineBlockAlwaysEmits ==
    Done("extract_documentation") =>
        /\ \A k \in SingleLineBlocks :
              /\ Len(MultiAt(k)) = 1
              /\ MultiAt(k)[1].content
                     \in Betweens(LangPatterns(language), Strip(Split(content)[k]))
              /\ ~BlockStateAfter(k)
        /\ ModuleDocFirst

\* C12 amended: such a line emits one multi fragment for that line, whose
\* content is the stripped text between the first start marker the line
\* begins with and the closing marker, when that text is not empty, and no
\* fragment when it is empty; either way the extractor is outside block state
\* after the line; Python content whose first line is """Module doc.""" gives
\* exactly one multi fragment "Module doc." at line 1.
C12_SingleLineBlock ==
    Done("extract_documentation") =>
        /\ \A k \in SingleLineBlocks :
              /\ TextBetween(LangPatterns(language), Strip(Split(content)[k])) # ""
                 => /\ Len(MultiAt(k)) = 1
                    /\ MultiAt(k)[1].content =
                           TextBetween(LangPatterns(language), Strip(Split(content)[k]))
              /\ TextBetween(LangPatterns(language), Strip(Split(content)[k])) = ""
                 => MultiAt(k) = <<>>
              /\ ~BlockStateAfter(k)
        /\ ModuleDocFirst

C12_Witness ==
    /\ Done("extract_documentation") /\ language = "Python"
    /\ content = "\"\"\"Module doc.\"\"\"\n# note"
    /\ 1 \in SingleLineBlocks
    /\ ret.value = <<ModuleDocFragment, [type |-> "single", content |-> "note", line |-> 2]>>

\* C13: the fragments extract_documentation returns are in line order: their
\* line numbers are non-decreasing along the sequence, and each is between 1
\* and the number of lines of the content (a final line break opens no line).
C13_FragmentLineOrder ==
    Done("extract_documentation") =>
        \A n \in 1..Len(ret.value) :
            /\ ret.value[n].line >= 1
            /\ ret.value[n].line <= Len(SplitLines(content))
            /\ ret.value[n].line <= Count(content, "\n") + 1
            /\ n > 1 => ret.value[n - 1].line <= ret.value[n].line

C13_Witness ==
    /\ Done("extract_documentation") /\ language = "Ruby"
    /\ content = "=begin a =end\n# r"
    /\ Len(ret.value) = 2
    /\ ret.value[1].line = 1 /\ ret.value[2].line = 2

\* the paths of a sequence of entries or records
PathsOf(entries) == [n \in DOMAIN entries |-> entries[n].path]

\* the entries a batch scan does not skip
HasContent(entry) == entry.has_content
Scannable(f) == f.kind = "file" /\ f.size <= SizeCeiling /\ f.decodes

\* C14: parse_repository and _process_file_batch return one record per entry
\* that was not skipped, in the order of the input entries, and a failure or a
\* skip on one entry never prevents the later entries from being scanned; of
\* 3 entries with the second excluded, 2 records come back, first then third.
C14_BatchScan ==
    /\ Done("parse_repository") =>
          /\ ~ret.raised
          /\ PathsOf(ret.value) = PathsOf(SelectSeq(files, HasContent))
          /\ invoked = PathsOf(SelectSeq(files, HasContent))
          /\ (Len(files) = 3 /\ HasContent(files[1]) /\ ~HasContent(files[2])
                /\ HasContent(files[3]))
             => PathsOf(ret.value) = <<files[1].path, files[3].path>>
    /\ Done("process_file_batch") =>
          /\ PathsOf(ret.value) = PathsOf(SelectSeq(files, Scannable))
          /\ \A n \in DOMAIN files :
                Scannable(files[n]) =>
                    \E k \in DOMAIN invoked : invoked[k] = <<"detect_language", files[n].path>>
          /\ (Len(files) = 3 /\ Scannable(files[1]) /\ ~Scannable(files[2])
                /\ Scannable(files[3]))
             => PathsOf(ret.value) = <<files[1].path, files[3].path>>

\* the files _process_file has to skip: over the size ceiling, or not UTF-8
Unreadable(f) == f.kind = "file" /\ (f.size > SizeCeiling \/ ~f.decodes)

\* C15: a file whose size exceeds the ceiling (10 MB) or whose bytes fail
\* UTF-8 decoding is skipped: no component is invoked on it, no record is
\* returned for it, and nothing is saved to the database for it.
C15_UnreadableFilesSkipped ==
    Done("process_file_batch") =>
        \A n \in DOMAIN files :
            Unreadable(files[n]) =>
                /\ \A k \in DOMAIN invoked : invoked[k][2] # files[n].path
                /\ \A k \in DOMAIN ret.value : ret.value[k].path # files[n].path
                /\ \A k \in DOMAIN saved : saved[k].path # files[n].path

C15_Witness ==
    /\ Done("process_file_batch")
    /\ PathsOf(files) = <<"big.py", "a.py", "bin.dat">>
    /\ PathsOf(ret.value) = <<"a.py">>
    /\ PathsOf(saved) = <<"a.py">>
    /\ Len(invoked) = 4

\* what the components give for a path and a content
Assembled(record, path, text) ==
    /\ record.language = DetectLanguage(path, text, TRUE)
    /\ record.functions = ExtractFunctions(text, record.language, FALSE).value
    /\ "documentation" \in DOMAIN record
    /\ record.documentation = ExtractDocumentation(text, record.language)

\* the calls of the detector, the extractor and the documentation extractor
\* on a path, in that order
InvokedInOrder(path) ==
    \E a, b, c \in DOMAIN invoked :
        /\ a < b /\ a < c
        /\ invoked[a] = <<"detect_language", path>>
        /\ invoked[b] = <<"extract_functions", path>>
        /\ invoked[c] = <<"extract_documentation", path>>

\* C17: the record assembled for one file (by parse_file, and by
\* _process_file) contains the detected language, the function records and
\* the documentation fragments obtained by invoking the language detector,
\* then the function extractor and the documentation extractor on its content.
C17_RecordAssembled ==
    /\ (Done("parse_file") /\ fault = "none" /\ ~ret.raised)
       => Assembled(ret.value, file_path, content)
    /\ Done("process_file_batch")
       => \A n \in DOMAIN ret.value :
             /\ \E k \in DOMAIN files :
                   /\ files[k].path = ret.value[n].path
                   /\ Assembled(ret.value[n], files[k].path, files[k].text)
             /\ InvokedInOrder(ret.value[n].path)

\* C18: after register(loader_type, loader_class), get_loader(loader_type)
\* returns that class, for every sequence of registrations in which the type
\* was last registered with that class.
C18_GetLoaderReturnsRegistered ==
    (Done("get_loader") /\ loader_type \in DOMAIN registered)
    => ret = Returned(registered[loader_type])

\* C19: get_loader called with a loader type that has never been registered
\* raises ValueError and leaves the registry unchanged.
C19_GetLoaderUnregistered ==
    [][(op' = "get_loader" /\ loader_type' \notin DOMAIN registered')
       => /\ ret'.raised /\ ret'.exc = "ValueError"
          /\ loaders' = loaders]_vars

\* the labels of the handlers that bound a body by a matching brace
BraceBounded ==
    {"JavaScript", "TypeScript (React)", "Java", "Go", "Rust", "Unknown", "C#"}

\* no candidate of the content is closed: the content has no closing brace,
\* or for Ruby no end keyword
NothingCloses ==
    \/ language \in BraceBounded /\ Count(content, "}") = 0
    \/ language = "Ruby" /\ FindStr(content, "end") = -1

\* C20: in the handlers that bound a body by a matching brace or `end`
\* (JS/TS, Java, Ruby, Go, Rust, Generic) a candidate whose closing brace or
\* `end` is not found before the end of the text produces no record, and the
\* well-formed functions elsewhere in the content are still extracted.
C20_UnterminatedSkipped ==
    (Done("extract_functions") /\ fault = "none" /\ ~ret.raised) =>
        /\ NothingCloses => ret.value = <<>>
        /\ (language = "JavaScript"
              /\ content = "function add(a, b) { return a + b; }function f() {\n")
           => /\ \E n \in DOMAIN ret.value : ret.value[n].name = "add"
              /\ \A n \in DOMAIN ret.value : ret.value[n].name # "f"

\* the content is not syntactically valid Python: ast.parse does not give a
\* tree for it
NotPython(text) == ~AstParse(text).ok \/ Count(text, LoneSurrogate) > 0

\* C21: when the language key is python and the content is not syntactically
\* valid Python, extract_functions returns exactly the list the Generic
\* handler returns for the same content.
C21_PythonFallsBackToGeneric ==
    (/\ Done("extract_functions") /\ fault = "none"
     /\ NormalizedLang(language) = Returned("python")
     /\ NotPython(content))
    => ret = Returned(ExtractGenericFunctions(content))

\* the coarse key of a label: its first token, lower-cased and cut at the
\* first whitespace or "("; a label with no token has the empty key
FirstToken(lowered, start) ==
    Slice(lowered, start, SpanEnd(NotIn(SpaceChars \cup {"("}), lowered, start))
CoarseKey(label) == FirstToken(LowerStr(label), SpanEnd(Sp, LowerStr(label), 0))

\* labels that share their key with the labels of the calls
OtherLabels ==
    {"python", "PYTHON 3", "JavaScript (React)", "javascript", "TypeScript",
     "cpp", "c (gnu)", "JAVA", "rb", "Ruby (Rails)", "go", "Rust (2021)",
     "unknown", "C# (Mono)", "(React)"}

\* C22: the handler extract_functions chooses depends only on the coarse key
\* of the label: two labels with the same key return identical results on the
\* same content, the keys python, javascript/typescript, c/c++/cpp, java,
\* ruby/rb, go and rust select their own handler, and every other label
\* selects the Generic handler.
C22_DispatchByKey ==
    (Done("extract_functions") /\ fault = "none"
     /\ Count(content, LoneSurrogate) = 0)
    => /\ ret = Returned(Handler(CoarseKey(language), content))
       /\ \A other \in OtherLabels :
             CoarseKey(other) = CoarseKey(language)
             => ExtractFunctions(content, other, FALSE) = ret

\* the stripped text of line k of the content, and the style of the call
LineText(k) == Strip(Split(content)[k])
DocStyle == LangPatterns(language)

\* what follows the start marker on a line that begins with one
Remainder(line_content) ==
    Strip(AfterMarker(line_content,
                      DocStyle.starts[Min({j \in 1..3 :
                          DocStyle.starts[j] # ""
                          /\ StartsWith(line_content, DocStyle.starts[j])})]))

\* line i opens a block: outside a block, it begins with a start marker and
\* no closing marker follows on the line
OpensBlock(i) ==
    /\ ~BlockStateAfter(i - 1)
    /\ StartsOf(DocStyle, LineText(i)) # {}
    /\ EndsIn(DocStyle, Remainder(LineText(i))) = {}

\* the later lines that hold a closing marker
ClosingLines(i) ==
    {j \in (i + 1)..Len(Split(content)) : EndsIn(DocStyle, LineText(j)) # {}}

\* the text of a line before its closing marker
BeforeMarker(line_content) ==
    Strip(Slice(line_content, 0,
                FindStr(line_content,
                        DocStyle.ends[Min({j \in 1..3 :
                            DocStyle.ends[j] # ""
                            /\ FindStr(line_content, DocStyle.ends[j]) >= 0})])))

\* the lines i+1 .. j-1, each after a space
RECURSIVE Between(_, _)
Between(i, j) ==
    IF i + 1 >= j THEN "" ELSE Between(i, j - 1) \o " " \o LineText(j - 1)

BlockText(i, j) ==
    Remainder(LineText(i)) \o Between(i, j) \o " " \o BeforeMarker(LineText(j))

ClosedBlock(i, j) ==
    /\ MultiAt(j) = <<[type |-> "multi", content |-> BlockText(i, j), line |-> j]>>
    /\ \A k \in i..(j - 1) : MultiAt(k) = <<>> /\ BlockStateAfter(k)
    /\ ~BlockStateAfter(j)

\* C23: a block comment opened on line i and first closed on a later line j
\* yields exactly one multi fragment: it is emitted when line j is processed,
\* carries line number j, its content is the opening line's remainder
\* followed by every intermediate line and the text of line j before the
\* closing marker, and afterwards the extractor is outside block state; any
\* of the language's closing markers closes the block.
C23_MultiLineBlock ==
    Done("extract_documentation") =>
        \A i \in 1..Len(Split(content)) :
            (OpensBlock(i) /\ ClosingLines(i) # {})
            => ClosedBlock(i, Min(ClosingLines(i)))

C23_Witness ==
    /\ Done("extract_documentation") /\ language = "Python"
    /\ content = "\"\"\"Doc\nmore\n# end.'''"
    /\ OpensBlock(1) /\ ClosingLines(1) = {3}
    /\ ret.value[1] = [type |-> "multi", content |-> "Doc more # end.", line |-> 3]

\* the single fragments returned for line k
SingleAt(k) ==
    SelectSeq(ret.value, LAMBDA d : d.type = "single" /\ d.line = k)

\* line k lies outside every block comment: the loop reaches it outside a
\* block and the line opens none
OutsideBlocks(k) ==
    ~BlockStateAfter(k - 1) /\ StartsOf(DocStyle, LineText(k)) = {}

\* the text after the single-line marker
SingleText(line_content) ==
    Strip(Slice(line_content, Len(DocStyle.single), Len(line_content)))

IsSingleComment(line_content) ==
    StartsWith(line_content, DocStyle.single) /\ SingleText(line_content) # ""

\* C24: a single fragment is emitted only for a line that lies outside every
\* block comment: no line that opens, continues or closes a block yields one,
\* and a line outside a block yields one exactly when its stripped text starts
\* with the single-line marker and the remainder is not empty.
C24_SingleOnlyOutsideBlocks ==
    Done("extract_documentation") =>
        \A k \in 1..Len(Split(content)) :
            /\ ~OutsideBlocks(k) => SingleAt(k) = <<>>
            /\ OutsideBlocks(k) =>
                  SingleAt(k) = IF IsSingleComment(LineText(k))
                                THEN <<[type |-> "single",
                                        content |-> SingleText(LineText(k)),
                                        line |-> k]>>
                                ELSE <<>>

\* the fragments returned for the lines from i on
FragmentsFrom(i) == SelectSeq(ret.value, LAMBDA d : d.line >= i)

\* C29: a block comment that is opened and never closed before the end of the
\* content yields no fragment for its accumulated text, and no single fragment
\* is emitted for any line after its opening line.
C29_UnclosedBlock ==
    Done("extract_documentation") =>
        \A i \in 1..Len(Split(content)) :
            (OpensBlock(i) /\ ClosingLines(i) = {})
            => /\ FragmentsFrom(i) = <<>>
               /\ \A k \in i..Len(Split(content)) : BlockStateAfter(k)

C29_Witness ==
    /\ Done("extract_documentation") /\ language = "JavaScript"
    /\ content = "/* a\n// c"
    /\ OpensBlock(1) /\ ClosingLines(1) = {}
    /\ IsSingleComment(LineText(2))
    /\ ret.value = <<>>

\* C30: every fragment extract_documentation returns, single or multi, from
\* a single-line block or from a block spanning several lines, has a content
\* that is not empty after stripping whitespace; an empty comment or an empty
\* block produces no fragment.
C30_NoEmptyFragment ==
    Done("extract_documentation") =>
        \A n \in DOMAIN ret.value : Strip(ret.value[n].content) # ""

\* the forms of a Go function: the text up to the opening brace of the body,
\* and the name of the function
GoForms ==
    {[head |-> "func f(a) {", name |-> "f"],
     [head |-> "func g(a) int {\n", name |-> "g"],
     [head |-> "func (r) h() {", name |-> "h"]}

\* C25: the Go handler extracts every function of the forms
\* `func name(params) {`, `func name(params) returnType {` and, with a
\* receiver clause, `func (recv) name(params) {`: one record per function,
\* named `name` and bounded by the brace that matches the opening brace of
\* the body.
C25_GoForms ==
    (Done("extract_functions") /\ language = "Go" /\ fault = "none") =>
        \A form \in GoForms :
            content = form.head \o "}"
            => /\ Len(ret.value) = 1
               /\ ret.value[1].name = form.name
               /\ ret.value[1].code = content

\* the last offset of a text in the content, -1 when it is not there
LastOffset(sub) ==
    MaxOr({p \in 0..(Len(content) - Len(sub)) :
              Slice(content, p, p + Len(sub)) = sub}, -1)

\* the name of the last class declaration of the content, "" when there is
\* none (the classes of the contents are A and B)
LastDeclared ==
    IF LastOffset("class A") = -1 /\ LastOffset("class B") = -1 THEN ""
    ELSE IF LastOffset("class A") > LastOffset("class B") THEN "A" ELSE "B"

\* the method name of a record: its signature up to the parameters
MethodOf(record) == Slice(record.signature, 0, Find(record.signature, "(", 0))

\* C26: in the Java and Ruby handlers every method record of a file is named
\* `C.method` where C is the name of the last class declaration of the file
\* (also for methods that belong to an earlier class), and the records are
\* unqualified exactly when the file has no class declaration.
C26_LastClassQualifies ==
    (Done("extract_functions") /\ language \in {"Java", "Ruby"} /\ fault = "none")
    => \A n \in DOMAIN ret.value :
          ret.value[n].name =
              IF LastDeclared = "" THEN MethodOf(ret.value[n])
              ELSE LastDeclared \o "." \o MethodOf(ret.value[n])

C26_Witness ==
    /\ Done("extract_functions") /\ language = "Java" /\ fault = "none"
    /\ content = "class A {\n void a() {\n}}\nclass B {\n"
    /\ Len(ret.value) = 1 /\ ret.value[1].name = "B.a"

\* analyze_repository went through its loop over the batches
Looped == Done("analyze_repository") /\ "status" \in DOMAIN ret.value

\* the files the walk lists, in its order
AllFiles == ListFiles(files, repository.local_path, Len(files))

\* the paths of the listed files the batch processing keeps, in listing order
RECURSIVE KeptPaths(_, _)
KeptPaths(all_files, n) ==
    IF n = 0 THEN <<>>
    ELSE IF ProcessFile(all_files[n]).skipped THEN KeptPaths(all_files, n - 1)
    ELSE Append(KeptPaths(all_files, n - 1), all_files[n].path)

\* C27: analyze_repository splits the listed files into consecutive batches
\* of at most 10 files, every listed file in exactly one batch (the batches
\* one after the other are the listing), processes the batches one after
\* another, and the accumulated result is the concatenation of the per-batch
\* results, in listing order.
C27_ConsecutiveBatches ==
    Looped =>
        /\ \A b \in DOMAIN file_batches : Len(file_batches[b]) \in 1..10
        /\ Flatten(file_batches) = AllFiles
        /\ all_processed_files =
              Flatten([b \in DOMAIN file_batches |->
                          ProcessFileBatch(file_batches[b]).results])
        /\ invoked =
              Flatten([b \in DOMAIN file_batches |->
                          ProcessFileBatch(file_batches[b]).invoked])
        /\ PathsOf(all_processed_files) = KeptPaths(AllFiles, Len(AllFiles))

C27_Witness ==
    /\ Looped /\ fault = "none"
    /\ Len(AllFiles) = 21 /\ Len(file_batches) = 3
    /\ Len(file_batches[1]) = 10 /\ Len(file_batches[3]) = 1
    /\ file_batches[3][1] = AllFiles[21]
    /\ Len(all_processed_files) > 10

\* C28: every run of analyze_repository that has set an existing repository's
\* status to "analyzing" (the repository exists and the status update did not
\* fail) ends with the status "analyzed" or "error": no return path leaves
\* the status at "analyzing".
C28_StatusSettled ==
    (Done("analyze_repository") /\ repository.exists /\ fault # "status")
    => repository.status \in {"analyzed", "error"}
====
